---- MODULE Spec2Model ----
(***************************************************************************)
(* Verification model of the hotelfinder worker: the name-matching engine  *)
(* (lib/matching.js) and the token resolution of the /compare handler      *)
(* (routes/compare.js).                                                    *)
(*                                                                         *)
(* Strings are TLC strings and are processed character by character, as    *)
(* the JavaScript does.  Scores are exact rationals held as integers in    *)
(* units of 1/Scale (the JavaScript uses IEEE doubles; every threshold the *)
(* code compares against is a multiple of 0.01 and every coverage a        *)
(* fraction hit/n with n dividing Scale, so all comparisons are exact      *)
(* here).                                                                  *)
(***************************************************************************)
EXTENDS Integers, Sequences, FiniteSets, TLC

NULL == "<null>"

\* ------------------------------------------------------------------------
\* Numbers: one unit is 1/Scale; Pct is 0.01.
\* ------------------------------------------------------------------------
Scale == 100 * 600
Pct == Scale \div 100

Min(a, b) == IF a < b THEN a ELSE b
Max(a, b) == IF a > b THEN a ELSE b

\* ------------------------------------------------------------------------
\* Characters
\* ------------------------------------------------------------------------
UpperChars == "ABCDEFGHIJKLMNOPQRSTUVWXYZ"
LowerChars == "abcdefghijklmnopqrstuvwxyz"
DigitChars == "0123456789"
\* Precomposed letters and the base letter NFD leaves once the combining
\* mark (U+0300..U+036F) is removed.  TLC keeps one byte of each character
\* of a string it writes to its state queue, so the letters í ó é Í Ó É are
\* written | @ & ! # $ in the strings of this module: "Reykjav|k" is
\* Reykjavík.  None of the six characters occurs in a string otherwise.
AccentedChars == "|@&!#$"
AccentBaseChars == "ioeIOE"

CharAt(s, i) == SubSeq(s, i, i)

IndexIn(c, s) ==
    IF \E i \in 1..Len(s) : CharAt(s, i) = c
    THEN CHOOSE i \in 1..Len(s) : CharAt(s, i) = c
    ELSE 0

\* String.prototype.includes
Includes(s, t) ==
    \/ Len(t) = 0
    \/ \E i \in 1..(Len(s) - Len(t) + 1) : SubSeq(s, i, i + Len(t) - 1) = t

CharsOf(s) == {CharAt(s, i) : i \in 1..Len(s)}

\* The character tables, one entry per character
StripOf == [c \in CharsOf(AccentedChars) |-> CharAt(AccentBaseChars, IndexIn(c, AccentedChars))]
LowerOf == [c \in CharsOf(UpperChars) |-> CharAt(LowerChars, IndexIn(c, UpperChars))]
LetterOrNumberChars ==
    CharsOf(LowerChars) \cup CharsOf(UpperChars) \cup CharsOf(DigitChars)
    \cup CharsOf(AccentedChars)

\* .normalize("NFD").replace(/[\u0300-\u036f]/g, "") on one character
stripDiacriticsChar(c) == IF c \in DOMAIN StripOf THEN StripOf[c] ELSE c

RECURSIVE stripDiacriticsFrom(_, _)
stripDiacriticsFrom(s, i) ==
    IF i > Len(s) THEN ""
    ELSE stripDiacriticsChar(CharAt(s, i)) \o stripDiacriticsFrom(s, i + 1)

stripDiacritics(s) == stripDiacriticsFrom(s, 1)

toLowerCaseChar(c) == IF c \in DOMAIN LowerOf THEN LowerOf[c] ELSE c

RECURSIVE toLowerCaseFrom(_, _)
toLowerCaseFrom(s, i) ==
    IF i > Len(s) THEN ""
    ELSE toLowerCaseChar(CharAt(s, i)) \o toLowerCaseFrom(s, i + 1)

toLowerCase(s) == toLowerCaseFrom(s, 1)

\* \p{L} or \p{N}, over the alphabet of the model
IsLetterOrNumber(c) == c \in LetterOrNumberChars

\* .replace(/[^\p{L}\p{N}]+/gu, " "): every maximal run of other characters
\* becomes one space.
RECURSIVE replaceNonAlnumFrom(_, _, _)
replaceNonAlnumFrom(s, i, inRun) ==
    IF i > Len(s) THEN ""
    ELSE LET c == CharAt(s, i)
         IN IF IsLetterOrNumber(c)
            THEN c \o replaceNonAlnumFrom(s, i + 1, FALSE)
            ELSE (IF inRun THEN "" ELSE " ") \o replaceNonAlnumFrom(s, i + 1, TRUE)

replaceNonAlnum(s) == replaceNonAlnumFrom(s, 1, FALSE)

RECURSIVE trimStart(_)
trimStart(s) ==
    IF Len(s) > 0 /\ CharAt(s, 1) = " " THEN trimStart(SubSeq(s, 2, Len(s))) ELSE s

RECURSIVE trimEnd(_)
trimEnd(s) ==
    IF Len(s) > 0 /\ CharAt(s, Len(s)) = " "
    THEN trimEnd(SubSeq(s, 1, Len(s) - 1)) ELSE s

\* String.prototype.trim
trim(s) == trimEnd(trimStart(s))

\* .split(/\s+/).map(t => t.trim()).filter(Boolean)
RECURSIVE splitFrom(_, _, _)
splitFrom(s, i, cur) ==
    IF i > Len(s) THEN (IF cur = "" THEN <<>> ELSE <<cur>>)
    ELSE IF CharAt(s, i) = " "
         THEN (IF cur = "" THEN <<>> ELSE <<cur>>) \o splitFrom(s, i + 1, "")
         ELSE splitFrom(s, i + 1, cur \o CharAt(s, i))

splitWords(s) == splitFrom(s, 1, "")

RECURSIVE joinWords(_)
joinWords(ws) ==
    IF Len(ws) = 0 THEN ""
    ELSE IF Len(ws) = 1 THEN ws[1]
    ELSE ws[1] \o " " \o joinWords(Tail(ws))

Range(seq) == {seq[i] : i \in DOMAIN seq}

\* ------------------------------------------------------------------------
\* lib/matching.js: tokenizers
\* ------------------------------------------------------------------------
NAME_STOP_WORDS ==
    {"hotel", "by", "the", "and", "of", "at", "in", "a", "an", "resort", "inn",
     "apartments", "apartment", "suites", "suite", "hostel", "guesthouse"}

normalizeForIncludes(s) == trim(replaceNonAlnum(toLowerCase(stripDiacritics(s))))

LongerThanOne(t) == Len(t) > 1
NotStopWord(t) == t \notin NAME_STOP_WORDS

tokenizeRaw(s) ==
    SelectSeq(splitWords(replaceNonAlnum(toLowerCase(stripDiacritics(s)))), LongerThanOne)

tokenizeName(s) == SelectSeq(tokenizeRaw(s), NotStopWord)

\* patternToRegex(pattern): the regular expression \bw1\s+w2...\b, held as the
\* phrase " w1 w2 ... " it finds in a subject padded with one space on each
\* side.
patternToRegex(pattern) ==
    " " \o joinWords(splitWords(normalizeForIncludes(pattern))) \o " "

\* re.test(n).  The subject n is always a normalizeForIncludes result (lower
\* case, single spaces), so a word boundary is the start, the end or a space
\* and the i flag has nothing to fold.
regexTest(re, n) == Includes(" " \o n \o " ", re)

\* ------------------------------------------------------------------------
\* lib/constants.js: rule tables of the matcher
\* ------------------------------------------------------------------------
BrandRule(id, patterns) == [id |-> id, patterns |-> patterns]

STRICT_BRAND_RULES ==
    { BrandRule("marriott", {"marriott"}), BrandRule("hilton", {"hilton"}),
      BrandRule("hyatt", {"hyatt"}), BrandRule("sheraton", {"sheraton"}),
      BrandRule("westin", {"westin"}), BrandRule("radisson", {"radisson"}),
      BrandRule("scandic", {"scandic"}), BrandRule("wyndham", {"wyndham"}),
      BrandRule("ramada", {"ramada"}), BrandRule("travelodge", {"travelodge"}),
      BrandRule("novotel", {"novotel"}), BrandRule("mercure", {"mercure"}),
      BrandRule("ibis", {"ibis"}), BrandRule("sofitel", {"sofitel"}),
      BrandRule("pullman", {"pullman"}),
      BrandRule("intercontinental", {"intercontinental"}),
      BrandRule("accor", {"accor"}), BrandRule("clarion", {"clarion"}),
      BrandRule("best-western", {"best western"}),
      BrandRule("holiday-inn", {"holiday inn"}),
      BrandRule("crowne-plaza", {"crowne plaza"}),
      BrandRule("premier-inn", {"premier inn"}),
      BrandRule("days-inn", {"days inn"}),
      BrandRule("hotel-indigo", {"hotel indigo", "indigo hotel"}),
      BrandRule("motel-6", {"motel 6", "motel six"}),
      BrandRule("comfort-inn", {"comfort inn"}),
      BrandRule("comfort-suites", {"comfort suites"}),
      BrandRule("quality-inn", {"quality inn"}) }

KeyRule(id, strong, weak) == [id |-> id, strong |-> strong, weak |-> weak]

KEY_GROUP_RULES ==
    { KeyRule("airport", {"airport", "terminal"}, {}),
      KeyRule("station",
              {"train station", "railway station", "metro station", "subway station"},
              {"station"}),
      KeyRule("center",
              {"downtown", "city center", "city centre", "old town", "oldtown",
               "historic center", "historic centre"},
              {"central", "centre"}),
      KeyRule("waterfront",
              {"beach", "seafront", "oceanfront", "waterfront", "beachfront"},
              {"harbor", "harbour", "marina", "port"}) }

KEY_GROUP_BOOST_STRONG == 12 * Pct
KEY_GROUP_BOOST_WEAK == 6 * Pct
KEY_GROUP_BOOST_CAP == 24 * Pct
MIN_SCORE_FOR_DOMAIN_BOOST == 55 * Pct

\* A validator whose hit-domain floor is the picker's domain-boost floor
HIT_DOMAIN_MIN_SCORE_AS_BOOST_FLOOR == MIN_SCORE_FOR_DOMAIN_BOOST

\* const HIT_DOMAIN_MIN_SCORE = 0.70 in validateCachedToken
HIT_DOMAIN_MIN_SCORE == 70 * Pct

TypeRule(id, patterns, strength) ==
    [id |-> id, patterns |-> patterns, strength |-> strength]

ACCOM_TYPE_GROUPS ==
    { TypeRule("apartment",
               {"apartment", "apartments", "serviced apartment", "aparthotel", "residence"},
               "strong"),
      TypeRule("hostel", {"hostel", "youth hostel"}, "strong"),
      TypeRule("guesthouse", {"guesthouse", "guest house", "pension"}, "strong"),
      TypeRule("hotel", {"hotel", "inn", "lodge", "resort", "suite", "suites"}, "weak") }

TYPE_MATCH_BOOST == 5 * Pct
TYPE_MISMATCH_PENALTY_STRONG == 18 * Pct
\* A weak mismatch penalised like a strong one
TYPE_MISMATCH_PENALTY_AS_STRONG == TYPE_MISMATCH_PENALTY_STRONG

TYPE_MISMATCH_PENALTY_WEAK == 10 * Pct
TYPE_EFFECT_CAP == 20 * Pct

LOCATION_QUALIFIERS ==
    {"city", "centre", "center", "central", "downtown", "old", "town", "historic"}

\* ------------------------------------------------------------------------
\* lib/matching.js: signal extractors
\* ------------------------------------------------------------------------
\* Matchers precompiled once at module load
STRICT_BRAND_MATCHERS ==
    {[id |-> r.id, res |-> {patternToRegex(p) : p \in r.patterns}] :
        r \in STRICT_BRAND_RULES}

KEY_GROUP_MATCHERS ==
    {[id |-> g.id, strong |-> {patternToRegex(p) : p \in g.strong},
      weak |-> {patternToRegex(p) : p \in g.weak}] : g \in KEY_GROUP_RULES}

ACCOM_TYPE_MATCHERS ==
    {[id |-> g.id, strength |-> g.strength,
      res |-> {patternToRegex(p) : p \in g.patterns}] : g \in ACCOM_TYPE_GROUPS}

\* rule.res.some(re => re.test(n))
someTest(res, n) == \E re \in res : regexTest(re, n)

brandsOf(n) == {r.id : r \in {m \in STRICT_BRAND_MATCHERS : someTest(m.res, n)}}

extractStrictBrands(name) == brandsOf(normalizeForIncludes(name))

\* Key signals that take a weak pattern for a strong one
keySignalsWeakAsStrong(n) ==
    [strong |-> {m.id : m \in {h \in KEY_GROUP_MATCHERS :
                                  someTest(h.strong, n) \/ someTest(h.weak, n)}},
     weak |-> {}]

\* strong and weak are disjoint: a group whose strong pattern matches is
\* never tested for its weak patterns.
keySignalsOf(n) ==
    LET split(tests) ==
            [strong |-> {t.id : t \in {h \in tests : h.strong}},
             weak |-> {t.id : t \in {h \in tests : ~h.strong /\ h.weak}}]
    IN split({[id |-> m.id, strong |-> someTest(m.strong, n),
               weak |-> someTest(m.weak, n)] : m \in KEY_GROUP_MATCHERS})

extractKeySignals(name) == keySignalsOf(normalizeForIncludes(name))

\* groups, with strongGroups the groups whose strength is "strong"
typeGroupsOf(n) ==
    LET split(hits) ==
            [groups |-> {h.id : h \in hits},
             strongGroups |-> {h.id : h \in {m \in hits : m.strength = "strong"}}]
    IN split({m \in ACCOM_TYPE_MATCHERS : someTest(m.res, n)})

extractAccommodationTypeGroups(name) == typeGroupsOf(normalizeForIncludes(name))

extractCoreTokens(name, city, country) ==
    LET isCore(t) ==
            t \notin (IF city # "" THEN Range(tokenizeName(city)) ELSE {})
                     \cup (IF country # "" THEN Range(tokenizeName(country)) ELSE {})
                     \cup LOCATION_QUALIFIERS
    IN SelectSeq(tokenizeName(name), isCore)

\* The separators of the suffix pattern /[,\-..]\s*([^,\-..]+)$/: the comma and
\* the hyphen (the en and em dash it also accepts are outside the alphabet
\* of the model).
SuffixSeparators == {",", "-"}

\* Index of the last separator of s, 0 if there is none
LastSeparator(s) ==
    LET idx == {i \in 1..Len(s) : CharAt(s, i) \in SuffixSeparators}
    IN IF idx = {} THEN 0 ELSE CHOOSE i \in idx : \A j \in idx : j <= i

\* The intermediate values of the function are the parameters of the local
\* operators, in the order the function computes them.
stripTrailingLocationSuffix(query, candidateCity, candidateCountry) ==
    LET keep(original) ==
            [stripped |-> original, wasStripped |-> FALSE, strippedSuffix |-> ""]
        \* allMatch && hasLocationToken for one location
        allMatch(suffixTokens, locationTokens) ==
            /\ locationTokens # {}
            /\ \A i \in DOMAIN suffixTokens :
                  suffixTokens[i] \in locationTokens \cup LOCATION_QUALIFIERS
            /\ \E i \in DOMAIN suffixTokens : suffixTokens[i] \in locationTokens
        matches(suffixTokens, location) ==
            location # "" /\ allMatch(suffixTokens, Range(tokenizeName(location)))
        withTokens(original, k, suffix, suffixTokens) ==
            IF original = "" \/ (candidateCity = "" /\ candidateCountry = "") THEN keep(original)
            ELSE IF k = 0 \/ k = Len(original) THEN keep(original)
            ELSE IF Len(suffixTokens) = 0 THEN keep(original)
            ELSE IF \/ matches(suffixTokens, candidateCity)
                    \/ matches(suffixTokens, candidateCountry)
                 THEN [stripped |-> trim(SubSeq(original, 1, k - 1)),
                       wasStripped |-> TRUE, strippedSuffix |-> suffix]
                 ELSE keep(original)
        withSuffix(original, k, suffix) ==
            withTokens(original, k, suffix, tokenizeName(suffix))
        withSeparator(original, k) ==
            withSuffix(original, k, trim(SubSeq(original, k + 1, Len(original))))
        withOriginal(original) == withSeparator(original, LastSeparator(original))
    IN withOriginal(trim(query))

\* An overlap test that asks for the same set on both sides
hasSameElements(setA, setB) == setA = setB

hasAnyOverlap(setA, setB) == setA \cap setB # {}

\* ------------------------------------------------------------------------
\* lib/matching.js: the scoring engine
\* ------------------------------------------------------------------------
\* Number of elements of the sequence toks that are in the set among
CountHits(toks, among) == Cardinality({i \in DOMAIN toks : toks[i] \in among})

scoreNameMatchDetailed(query, candidate, city, country) ==
    LET scored(qNorm, cNorm, qBrands, cBrands, qKey, cKey, qType, cType,
               qTokens, cTokens, qCoreTokens, cCoreTokens, cRawTokens) ==
            LET \* strict brand check
                brandMismatch ==
                    IF qBrands # {} THEN ~hasAnyOverlap(qBrands, cBrands) ELSE FALSE
                \* key groups
                overlapStrong == qKey.strong \cap cKey.strong
                keyConflict == qKey.strong # {} /\ cKey.strong # {} /\ overlapStrong = {}
                qAny == qKey.strong \cup qKey.weak
                cAny == cKey.strong \cup cKey.weak
                overlapAny == qAny \cap cAny
                bothStrong == {g \in overlapAny : g \in qKey.strong /\ g \in cKey.strong}
                keyGroupBoost ==
                    Min(KEY_GROUP_BOOST_CAP,
                        Cardinality(bothStrong) * KEY_GROUP_BOOST_STRONG
                        + Cardinality(overlapAny \ bothStrong) * KEY_GROUP_BOOST_WEAK)
                \* base token coverage
                hit == CountHits(qTokens, cTokens)
                coverage == IF Len(qTokens) > 0 THEN (hit * Scale) \div Len(qTokens) ELSE 0
                \* core identity overlap
                coreHit == CountHits(qCoreTokens, cCoreTokens)
                coreOverlapAny == coreHit > 0
                onlyLocationOverlap == hit > 0 /\ Len(qCoreTokens) > 0 /\ ~coreOverlapAny
                \* bidirectional contains boost
                qContainsC == /\ Includes(qNorm, cNorm)
                              /\ Len(cNorm) >= 6
                              /\ Len(cRawTokens) >= 2
                cContainsQ == Includes(cNorm, qNorm) /\ Len(qNorm) >= 6
                containsBoost == IF qContainsC \/ cContainsQ THEN 25 * Pct ELSE 0
                \* accommodation type
                typeOverlap == qType.groups \cap cType.groups
                qHasStrongNonHotel == \E g \in qType.strongGroups : g # "hotel"
                cHasStrongNonHotel == \E g \in cType.strongGroups : g # "hotel"
                typeBoost0 ==
                    IF qType.groups # {} /\ cType.groups # {} /\ typeOverlap # {}
                    THEN TYPE_MATCH_BOOST ELSE 0
                typePenalty0 ==
                    IF qType.groups # {} /\ cType.groups # {} /\ typeOverlap = {}
                    THEN (IF qHasStrongNonHotel /\ cHasStrongNonHotel
                          THEN TYPE_MISMATCH_PENALTY_STRONG
                          ELSE IF qHasStrongNonHotel \/ cHasStrongNonHotel
                               THEN TYPE_MISMATCH_PENALTY_WEAK ELSE 0)
                    ELSE 0
                typeBoost == Min(TYPE_EFFECT_CAP, Max(0, typeBoost0))
                typePenalty == Min(TYPE_EFFECT_CAP, Max(0, typePenalty0))
                baseScore ==
                    Max(0, coverage + containsBoost + keyGroupBoost + typeBoost - typePenalty)
            IN [hardMismatch |-> brandMismatch \/ keyConflict,
                brandMismatch |-> brandMismatch,
                keyConflict |-> keyConflict,
                qBrands |-> qBrands, cBrands |-> cBrands,
                qKeyStrong |-> qKey.strong, qKeyWeak |-> qKey.weak,
                cKeyStrong |-> cKey.strong, cKeyWeak |-> cKey.weak,
                keyGroupBoost |-> keyGroupBoost,
                qTypeGroups |-> qType.groups, cTypeGroups |-> cType.groups,
                typeBoost |-> typeBoost, typePenalty |-> typePenalty,
                coverage |-> coverage, containsBoost |-> containsBoost,
                baseScore |-> baseScore,
                coreOverlapAny |-> coreOverlapAny,
                onlyLocationOverlap |-> onlyLocationOverlap]
        \* The values the function computes from its arguments, in the order
        \* of the parameters of scored
        normalized(qNorm, cNorm) ==
            scored(qNorm, cNorm,
                   extractStrictBrands(qNorm), extractStrictBrands(cNorm),
                   extractKeySignals(qNorm), extractKeySignals(cNorm),
                   extractAccommodationTypeGroups(qNorm),
                   extractAccommodationTypeGroups(cNorm),
                   tokenizeName(query), Range(tokenizeName(candidate)),
                   extractCoreTokens(query, city, country),
                   Range(extractCoreTokens(candidate, city, country)),
                   tokenizeRaw(candidate))
    IN normalized(normalizeForIncludes(query), normalizeForIncludes(candidate))

\* lib/normalize.js: new URL(s).hostname.toLowerCase().replace(/^www\./, ""),
\* "" when s is no absolute http(s) URL
getHostNoWww(s) ==
    LET rest == IF Len(s) >= 8 /\ toLowerCase(SubSeq(s, 1, 8)) = "https://"
                THEN SubSeq(s, 9, Len(s))
                ELSE IF Len(s) >= 7 /\ toLowerCase(SubSeq(s, 1, 7)) = "http://"
                     THEN SubSeq(s, 8, Len(s))
                     ELSE ""
        slash == IndexIn("/", rest)
        host == toLowerCase(IF slash = 0 THEN rest ELSE SubSeq(rest, 1, slash - 1))
    IN IF Len(host) >= 4 /\ SubSeq(host, 1, 4) = "www."
       THEN SubSeq(host, 5, Len(host)) ELSE host

EndsWith(s, t) == Len(t) <= Len(s) /\ SubSeq(s, Len(s) - Len(t) + 1, Len(s)) = t

StripWww(d) ==
    IF Len(d) >= 4 /\ SubSeq(d, 1, 4) = "www." THEN SubSeq(d, 5, Len(d)) ELSE d

domainsEquivalent(a, b) ==
    LET da == StripWww(toLowerCase(a))
        db == StripWww(toLowerCase(b))
    IN IF da = "" \/ db = "" THEN FALSE
       ELSE da = db \/ EndsWith(da, "." \o db) \/ EndsWith(db, "." \o da)

computeDomainBoost(domainMatch, baseScore) ==
    IF ~domainMatch THEN 0
    ELSE IF baseScore < MIN_SCORE_FOR_DOMAIN_BOOST THEN 0
    ELSE Min(70 * Pct, (9 * baseScore) \div 10)

\* A picker that boosts on the domain match alone
domainBoostUngated(domainMatch, coreOverlapAny) == domainMatch

\* const domainBoostAllowed = domainMatch && coreOverlapAny
domainBoostAllowed(domainMatch, coreOverlapAny) == domainMatch /\ coreOverlapAny

\* const domainMatchForConfidence = domainMatch && coreOverlapAny
domainMatchForConfidence(domainMatch, coreOverlapAny) == domainMatch /\ coreOverlapAny

\* An altQuery rule that forgets the hard mismatch of the altQuery score
altImprovesUnchecked(alt, baseScore) == alt.baseScore > baseScore

\* if (!alt.hardMismatch && alt.baseScore > baseScore)
altImproves(alt, baseScore) == ~alt.hardMismatch /\ alt.baseScore > baseScore

\* A computeConfidence without the caps at 0.95
computeConfidenceUncapped(domainMatch, baseScore, hardMismatch) ==
    IF hardMismatch THEN 0
    ELSE IF domainMatch /\ baseScore >= 65 * Pct THEN baseScore + 15 * Pct
    ELSE baseScore

\* if (hardMismatch) return 0; ... return Math.max(0, Math.min(0.95, conf))
computeConfidence(domainMatch, baseScore, hardMismatch) ==
    IF hardMismatch THEN 0
    ELSE LET conf0 == Min(95 * Pct, baseScore)
             conf == IF domainMatch /\ baseScore >= 65 * Pct
                     THEN Min(95 * Pct, conf0 + 15 * Pct) ELSE conf0
         IN Max(0, Min(95 * Pct, conf))

\* ------------------------------------------------------------------------
\* Optional values (null | value) are sequences of length at most one.
\* ------------------------------------------------------------------------
None == <<>>
Some(v) == <<v>>
IsSome(o) == o # <<>>
Get(o) == o[1]

\* ------------------------------------------------------------------------
\* The environment: properties SearchApi google_hotels answers with
\* ------------------------------------------------------------------------
Property(name, city, country, link, property_token) ==
    [name |-> name, city |-> city, country |-> country, link |-> link,
     property_token |-> property_token]

AldaHotel == Property("Alda Hotel", "Reykjav|k", "", "https://www.example.com/", "T1")
GrandHotel ==
    Property("Hotel Reykjav|k Grand", "Reykjav|k", "", "https://www.example.com/grand", "T2")
AldaInn == Property("Alda Inn", "Reykjav|k", "", "https://example.com/inn", "T3")
AldaHotelOta == Property("Alda Hotel", "", "", "https://alda.example.org/rooms", "T4")
HiltonAlda == Property("Hilton Alda Hotel", "", "", "https://www.hilton.example.net/", "T5")
NoTokenHotel == Property("Alda Hotel", "", "", "", "")

\* data.properties of a successful google_hotels call
SearchLists ==
    {<<>>, <<AldaHotel>>, <<AldaInn, AldaHotelOta>>, <<NoTokenHotel, GrandHotel>>}

\* { res, data } of searchApiCall: ok is res && res.ok && !data.error
SearchOutcomes ==
    {[ok |-> FALSE, properties |-> <<>>]}
    \cup {[ok |-> TRUE, properties |-> l] : l \in SearchLists}

\* Request parameters
gl == "us"
HotelNames ==
    {"Alda Hotel Reykjav|k", "Alda Hotel, Reykjav|k", "Completely Different Hostel",
     "Hilton Alda Hotel"}
OfficialUrls == {"", "https://www.example.com/"}
\* parseBookingHotelSlug(bookingUrl).slug when smart=1, else ""
BookingSlugs == {"", "alda-hotel"}
CtxParams == {"", "c1"}

\* The /compare requests explored: every hotel name with and without the
\* official domain, and "Alda Hotel Reykjavík" with each of the other
\* parameters too.
CompareParams(hotelName, officialUrl, bookingSlug, ctxParam, refresh) ==
    [hotelName |-> hotelName, officialUrl |-> officialUrl, bookingSlug |-> bookingSlug,
     ctxParam |-> ctxParam, refresh |-> refresh]

RequestInputs ==
    {CompareParams(h, u, "", "", FALSE) : h \in HotelNames, u \in OfficialUrls}
    \cup {CompareParams("Alda Hotel Reykjav|k", u, "alda-hotel", c, FALSE) :
              u \in OfficialUrls, c \in CtxParams}
    \cup {CompareParams("Alda Hotel Reykjav|k", "https://www.example.com/", "", "c1", FALSE),
          CompareParams("Alda Hotel Reykjav|k", "https://www.example.com/", "", "", TRUE)}

\* ------------------------------------------------------------------------
\* scoreNameMatchDetailed over the names of the model, computed once.
\* scoreOf is scoreNameMatchDetailed.
\* ------------------------------------------------------------------------
AllProperties == {AldaHotel, GrandHotel, AldaInn, AldaHotelOta, HiltonAlda, NoTokenHotel}

\* The hotel names of requests: those of /compare and of the earlier requests
\* that filled the cache
AllHotelNames == HotelNames \cup {"Alda Hotel"}

AltQueries == {"", "alda hotel", "hilton alda hotel"}

ScoreQueries ==
    {stripTrailingLocationSuffix(h, p.city, p.country).stripped :
        h \in AllHotelNames, p \in AllProperties}
    \cup AltQueries

ScoreCandidates == {<<p.name, p.city, p.country>> : p \in AllProperties}

\* (@@ makes the function an explicit table of values)
ScoreTable ==
    [a \in ScoreQueries \X ScoreCandidates |->
        scoreNameMatchDetailed(a[1], a[2][1], a[2][2], a[2][3])] @@ <<>>

scoreOf(query, candidate, city, country) ==
    ScoreTable[<<query, <<candidate, city, country>>>>]

\* ------------------------------------------------------------------------
\* lib/matching.js: validateCachedToken
\* tokenObj is a TokenRecord (not null); "" stands for an absent string.
\* The numeric suffix of the reasons `domain_hit_but_name_too_low:0.123` and
\* `confidence_too_low:0.123` is left out.
\* ------------------------------------------------------------------------
ValidationResult(ok, reason, updates, confidence, baseScore, domainMatch, coreOverlapAny, queryForScore, details) ==
    [ok |-> ok, reason |-> reason, updates |-> updates, confidence |-> confidence,
     baseScore |-> baseScore, domainMatch |-> domainMatch,
     coreOverlapAny |-> coreOverlapAny, queryForScore |-> queryForScore,
     details |-> details]

validateCachedToken(hotelName, officialDomain, tokenObj, source) ==
    LET candidateName == tokenObj.property_name
        validated(linkHost, domainMatch, queryForScore, details) ==
            LET baseScore == details.baseScore
                coreOverlapAny == details.coreOverlapAny
                confidence ==
                    computeConfidence(domainMatchForConfidence(domainMatch, coreOverlapAny),
                                      baseScore, details.hardMismatch)
                reject(reason) ==
                    ValidationResult(FALSE, reason, None, confidence, baseScore, domainMatch,
                                     coreOverlapAny, queryForScore, Some(details))
            IN IF details.hardMismatch THEN reject("hard_mismatch")
               ELSE IF source = "hit-domain" /\ baseScore < HIT_DOMAIN_MIN_SCORE
                    THEN reject("domain_hit_but_name_too_low")
               ELSE IF source = "hit-domain" /\ ~coreOverlapAny
                    THEN reject("domain_hit_no_identity_overlap")
               ELSE IF source # "hit-domain" /\ confidence < 55 * Pct
                    THEN reject("confidence_too_low")
               ELSE ValidationResult(TRUE, "",
                        Some([linkHost |-> linkHost, nameScore |-> baseScore,
                              confidence |-> confidence, domainMatch |-> domainMatch,
                              coreOverlapAny |-> coreOverlapAny,
                              matchDetails |-> Some(details),
                              officialDomain |-> officialDomain]),
                        confidence, baseScore, domainMatch, coreOverlapAny, queryForScore,
                        Some(details))
        scoredAgainst(linkHost, locationStrip) ==
            validated(linkHost,
                      IF officialDomain # ""
                      THEN domainsEquivalent(linkHost, officialDomain) ELSE FALSE,
                      locationStrip.stripped,
                      scoreOf(locationStrip.stripped, candidateName,
                              tokenObj.city, tokenObj.country)
                      @@ [queryOriginal |-> hotelName,
                          queryForScore |-> locationStrip.stripped,
                          locationSuffixStripped |-> locationStrip.wasStripped])
    IN IF candidateName = ""
       THEN ValidationResult(FALSE, "missing_property_name", None, 0, 0, FALSE, FALSE,
                             "", None)
       ELSE scoredAgainst(IF tokenObj.linkHost # "" THEN tokenObj.linkHost
                          ELSE getHostNoWww(tokenObj.link),
                          stripTrailingLocationSuffix(hotelName, tokenObj.city,
                                                      tokenObj.country))

\* ------------------------------------------------------------------------
\* lib/matching.js: pickBestProperty
\* A candidate p is [name, city, country, link, property_token].
\* ------------------------------------------------------------------------
\* One iteration of the loop body for candidate p: the allCandidates entry.
\* Its fields other than name, city, skipped, reason and details are
\* meaningful only when skipped is FALSE.
pickEntry(p, hotelName, officialDomain, altQuery) ==
    LET entry(locationStrip, matchDetails, alt, linkHost, domainMatch) ==
            LET queryForScore == locationStrip.stripped
                altUsed == altQuery # "" /\ altImproves(alt, matchDetails.baseScore)
                baseScore == IF altUsed THEN alt.baseScore ELSE matchDetails.baseScore
                altBaseScore == IF altQuery # "" THEN Some(alt.baseScore) ELSE None
                coreOverlapAny == matchDetails.coreOverlapAny
                domainBoost ==
                    computeDomainBoost(domainBoostAllowed(domainMatch, coreOverlapAny),
                                       baseScore)
                finalScore == baseScore + domainBoost
                confidence ==
                    computeConfidence(domainMatchForConfidence(domainMatch, coreOverlapAny),
                                      baseScore, matchDetails.hardMismatch)
                meta == [queryOriginal |-> hotelName, queryForScore |-> queryForScore,
                         locationSuffixStripped |-> locationStrip.wasStripped,
                         strippedSuffix |-> locationStrip.strippedSuffix]
            IN IF matchDetails.hardMismatch
               THEN [name |-> p.name, city |-> p.city, skipped |-> TRUE,
                     reason |-> IF matchDetails.brandMismatch THEN "brand_mismatch"
                                ELSE IF matchDetails.keyConflict THEN "key_conflict"
                                ELSE "hard_mismatch",
                     baseScore |-> 0, mainBaseScore |-> 0, altBaseScore |-> None,
                     altUsed |-> FALSE, domainMatch |-> domainMatch, domainBoost |-> 0,
                     finalScore |-> 0, confidence |-> 0, linkHost |-> linkHost,
                     details |-> matchDetails @@ meta]
               ELSE [name |-> p.name, city |-> p.city, skipped |-> FALSE, reason |-> "",
                     baseScore |-> baseScore, mainBaseScore |-> matchDetails.baseScore,
                     altBaseScore |-> altBaseScore, altUsed |-> altUsed,
                     domainMatch |-> domainMatch, domainBoost |-> domainBoost,
                     finalScore |-> finalScore, confidence |-> confidence,
                     linkHost |-> linkHost,
                     details |-> matchDetails @@ meta
                                 @@ [altUsed |-> altUsed, altBaseScore |-> altBaseScore,
                                     mainBaseScore |-> matchDetails.baseScore,
                                     effectiveBaseScore |-> baseScore,
                                     domainBoostBlocked |-> domainMatch /\ ~coreOverlapAny]]
        scoredEntry(locationStrip, linkHost) ==
            entry(locationStrip,
                  scoreOf(locationStrip.stripped, p.name, p.city, p.country),
                  scoreOf(altQuery, p.name, p.city, p.country),
                  linkHost,
                  IF officialDomain # ""
                  THEN domainsEquivalent(linkHost, officialDomain) ELSE FALSE)
    IN scoredEntry(stripTrailingLocationSuffix(hotelName, p.city, p.country),
                   getHostNoWww(p.link))

\* The state of the loop before any candidate
pickStart ==
    [best |-> None, bestScore |-> 0 - Scale, bestNameScore |-> 0,
     bestDomainMatch |-> FALSE, bestLinkHost |-> "", confidence |-> 0,
     matchDetails |-> None, allCandidates |-> <<>>]

\* A loop body without the `continue` of the hard-mismatch branch
pickStepWithoutSkip(acc, p, hotelName, officialDomain, altQuery) ==
    LET step(e) ==
            IF e.finalScore > acc.bestScore
            THEN [acc EXCEPT !.allCandidates = Append(@, e),
                             !.best = Some(p), !.bestScore = e.finalScore,
                             !.bestNameScore = e.baseScore,
                             !.bestDomainMatch = e.domainMatch,
                             !.bestLinkHost = e.linkHost,
                             !.matchDetails = Some(e.details),
                             !.confidence = e.confidence]
            ELSE [acc EXCEPT !.allCandidates = Append(@, e)]
    IN step(pickEntry(p, hotelName, officialDomain, altQuery))

\* A loop body that takes a candidate as best on an equal finalScore too
pickStepOnTies(acc, p, hotelName, officialDomain, altQuery) ==
    LET pushed(e) == [acc EXCEPT !.allCandidates = Append(@, e)]
        step(e) ==
            IF e.skipped THEN pushed(e)
            ELSE IF e.finalScore >= acc.bestScore
                 THEN [pushed(e) EXCEPT !.best = Some(p), !.bestScore = e.finalScore,
                                        !.bestNameScore = e.baseScore,
                                        !.bestDomainMatch = e.domainMatch,
                                        !.bestLinkHost = e.linkHost,
                                        !.matchDetails = Some(e.details),
                                        !.confidence = e.confidence]
                 ELSE pushed(e)
    IN step(pickEntry(p, hotelName, officialDomain, altQuery))

\* The loop body: push the entry, and take p as best on a strictly greater
\* finalScore.
pickStep(acc, p, hotelName, officialDomain, altQuery) ==
    LET pushed(e) == [acc EXCEPT !.allCandidates = Append(@, e)]
        step(e) ==
            IF e.skipped THEN pushed(e)
            ELSE IF e.finalScore > acc.bestScore
                 THEN [pushed(e) EXCEPT !.best = Some(p), !.bestScore = e.finalScore,
                                        !.bestNameScore = e.baseScore,
                                        !.bestDomainMatch = e.domainMatch,
                                        !.bestLinkHost = e.linkHost,
                                        !.matchDetails = Some(e.details),
                                        !.confidence = e.confidence]
                 ELSE pushed(e)
    IN step(pickEntry(p, hotelName, officialDomain, altQuery))

RECURSIVE pickLoop(_, _, _, _, _, _)
pickLoop(acc, properties, i, hotelName, officialDomain, altQuery) ==
    IF i > Len(properties) THEN acc
    ELSE pickLoop(pickStep(acc, properties[i], hotelName, officialDomain, altQuery),
                  properties, i + 1, hotelName, officialDomain, altQuery)

\* null (None) for an empty list, else the result object
pickBestProperty(properties, hotelName, officialDomain, altQuery) ==
    IF Len(properties) = 0 THEN None
    ELSE Some(pickLoop(pickStart, properties, 1, hotelName, officialDomain,
                       trim(altQuery)))

\* ------------------------------------------------------------------------
\* lib/normalize.js: normalizeKey
\* ------------------------------------------------------------------------
KeyChars == CharsOf(LowerChars) \cup CharsOf(DigitChars)

\* .replace(/[^a-z0-9]+/g, " ")
RECURSIVE replaceNonKeyCharsFrom(_, _, _)
replaceNonKeyCharsFrom(s, i, inRun) ==
    IF i > Len(s) THEN ""
    ELSE LET c == CharAt(s, i)
         IN IF c \in KeyChars
            THEN c \o replaceNonKeyCharsFrom(s, i + 1, FALSE)
            ELSE (IF inRun THEN "" ELSE " ") \o replaceNonKeyCharsFrom(s, i + 1, TRUE)

\* .replace(/\s+/g, by)
RECURSIVE replaceSpaceRunsFrom(_, _, _, _)
replaceSpaceRunsFrom(s, i, inRun, by) ==
    IF i > Len(s) THEN ""
    ELSE LET c == CharAt(s, i)
         IN IF c # " "
            THEN c \o replaceSpaceRunsFrom(s, i + 1, FALSE, by)
            ELSE (IF inRun THEN "" ELSE by) \o replaceSpaceRunsFrom(s, i + 1, TRUE, by)

KeyMaxLen == 120

normalizeKey(s) ==
    LET spaced == trim(replaceNonKeyCharsFrom(toLowerCase(s), 1, FALSE))
        dashed == replaceSpaceRunsFrom(spaced, 1, FALSE, "-")
    IN SubSeq(dashed, 1, Min(Len(dashed), KeyMaxLen))

\* bookingSlug.replace(/-/g, " ")
RECURSIVE replaceHyphensFrom(_, _)
replaceHyphensFrom(s, i) ==
    IF i > Len(s) THEN ""
    ELSE (IF CharAt(s, i) = "-" THEN " " ELSE CharAt(s, i)) \o replaceHyphensFrom(s, i + 1)

altQueryOf(bookingSlug) == IF bookingSlug # "" THEN replaceHyphensFrom(bookingSlug, 1) ELSE ""

\* ------------------------------------------------------------------------
\* routes/compare.js: summarizeCandidates
\* ------------------------------------------------------------------------
\* Math.round(x * 1000) / 1000 for x >= 0
round3(x) == ((x * 1000 + Scale \div 2) \div Scale) * (Scale \div 1000)

\* considered.sort((a, b) => sb - sa): stable, descending by finalScore.
\* insertByScore puts c behind every element whose score is not smaller.
insertByScore(sorted, c) ==
    LET smaller == {i \in DOMAIN sorted : sorted[i].finalScore < c.finalScore}
        k == IF smaller = {} THEN Len(sorted) + 1
             ELSE CHOOSE i \in smaller : \A j \in smaller : i <= j
    IN SubSeq(sorted, 1, k - 1) \o <<c>> \o SubSeq(sorted, k, Len(sorted))

RECURSIVE sortByScore(_, _, _)
sortByScore(sorted, cs, i) ==
    IF i > Len(cs) THEN sorted
    ELSE sortByScore(insertByScore(sorted, cs[i]), cs, i + 1)

NotSkipped(c) == ~c.skipped

\* A summary that lists every considered candidate
summarizeCandidatesUnlimited(allCandidates, limit) ==
    LET skippedIdx == {i \in DOMAIN allCandidates : allCandidates[i].skipped}
        skippedCounts ==
            [r \in {allCandidates[i].reason : i \in skippedIdx} |->
                Cardinality({i \in skippedIdx : allCandidates[i].reason = r})]
        summary(top) ==
            [topCandidates |->
                 [i \in DOMAIN top |->
                     [name |-> top[i].name,
                      confidence |-> round3(top[i].confidence),
                      finalScore |-> round3(top[i].finalScore),
                      baseScore |-> round3(top[i].baseScore),
                      domainMatch |-> top[i].domainMatch]],
             skippedCounts |-> skippedCounts,
             total |-> Len(allCandidates),
             fromVerify |-> FALSE]
    IN IF Len(allCandidates) = 0 THEN None
       ELSE Some(summary(sortByScore(<<>>, SelectSeq(allCandidates, NotSkipped), 1)))

\* summarizeCandidates(allCandidates, limit = 3) (lines 56-90)

summarizeCandidates(allCandidates, limit) ==
    LET skippedIdx == {i \in DOMAIN allCandidates : allCandidates[i].skipped}
        skippedCounts ==
            [r \in {allCandidates[i].reason : i \in skippedIdx} |->
                Cardinality({i \in skippedIdx : allCandidates[i].reason = r})]
        summary(top) ==
            [topCandidates |->
                 [i \in DOMAIN top |->
                     [name |-> top[i].name,
                      confidence |-> round3(top[i].confidence),
                      finalScore |-> round3(top[i].finalScore),
                      baseScore |-> round3(top[i].baseScore),
                      domainMatch |-> top[i].domainMatch]],
             skippedCounts |-> skippedCounts,
             total |-> Len(allCandidates),
             fromVerify |-> FALSE]
        firstOf(considered) == SubSeq(considered, 1, Min(limit, Len(considered)))
    IN IF Len(allCandidates) = 0 THEN None
       ELSE Some(summary(firstOf(sortByScore(<<>>, SelectSeq(allCandidates, NotSkipped),
                                             1))))

\* ------------------------------------------------------------------------
\* routes/compare.js: the TokenRecord objects handleCompare builds.
\* A field the JavaScript object lacks (or holds null in) is "" for a string
\* and None for an object.
\* ------------------------------------------------------------------------
bestOf(picked) == Get(Get(picked).best)

\* tokenObj of the ctx-hit branch
ctxTokenObj(picked, officialDomain, ctxCandidateSummary) ==
    [property_token |-> bestOf(picked).property_token,
     property_name |-> bestOf(picked).name,
     city |-> bestOf(picked).city,
     country |-> bestOf(picked).country,
     link |-> bestOf(picked).link,
     linkHost |-> getHostNoWww(bestOf(picked).link),
     score |-> Get(picked).bestScore,
     nameScore |-> Get(picked).bestNameScore,
     confidence |-> Get(picked).confidence,
     domainMatch |-> Get(picked).bestDomainMatch,
     officialDomain |-> officialDomain,
     coreOverlapAny |-> None,
     matchDetails |-> None,
     fromCtx |-> TRUE,
     candidateSummary |-> ctxCandidateSummary]

\* tokenObj of the live-search branch
searchTokenObj(picked, officialDomain, searchCandidateSummary) ==
    [ctxTokenObj(picked, officialDomain, searchCandidateSummary)
        EXCEPT !.matchDetails = Get(picked).matchDetails, !.fromCtx = FALSE]

\* Object.assign(tokenObj, v.updates)
assignUpdates(tokenObj, updates) ==
    [tokenObj EXCEPT !.linkHost = updates.linkHost,
                     !.nameScore = updates.nameScore,
                     !.confidence = updates.confidence,
                     !.domainMatch = updates.domainMatch,
                     !.coreOverlapAny = Some(updates.coreOverlapAny),
                     !.matchDetails = updates.matchDetails,
                     !.officialDomain = updates.officialDomain]

\* tokenObj?.property_token
hasToken(tokenObj) == IsSome(tokenObj) /\ Get(tokenObj).property_token # ""

\* ------------------------------------------------------------------------
\* State
\* ------------------------------------------------------------------------
VARIABLES
    kv,             \* CACHE_KV: key -> stored JSON value
    pending,        \* ctx.waitUntil(kvPutJson(...)): detached writes not yet applied
    req,            \* per request: the locals of the handler and where it stands
    prefetchCount,  \* /prefetchCtx requests served
    call            \* the library function applied by a direct caller, with its result

vars == <<kv, pending, req, prefetchCount, call>>

\* ------------------------------------------------------------------------
\* Bounds
\* ------------------------------------------------------------------------
MaxRequests == 1
MaxPrefetch == 1
MaxProps == 2
GridSteps == 30

\* ------------------------------------------------------------------------
\* routes/compare.js: cache keys
\* ------------------------------------------------------------------------
tokenKeyNameOf(hotelName) == "tok:" \o gl \o ":n:" \o normalizeKey(hotelName)
tokenKeyDomainOf(officialDomain) ==
    IF officialDomain # "" THEN "tok:" \o gl \o ":d:" \o officialDomain ELSE ""
tokenKeyBookingOf(bookingSlug) ==
    IF bookingSlug # "" THEN "tok:" \o gl \o ":b:" \o bookingSlug ELSE ""
ctxKeyOf(ctxParam) == IF ctxParam # "" THEN "ctx:" \o ctxParam ELSE ""
\* the stay (dates, adults, currency, hl, rooms) is the same in every request
offersKeyOf(propertyToken) == "offers:" \o propertyToken \o ":stay:" \o gl

\* lib/kvCache.js
kvGetJson(store, key) == IF key \in DOMAIN store THEN Some(store[key]) ELSE None
kvPutJson(key, obj, ttl) == [key |-> key, value |-> obj, ttl |-> ttl]

\* ------------------------------------------------------------------------
\* The locals of one handleCompare invocation
\* ------------------------------------------------------------------------
NoCtxDebug ==
    [ctxAttempted |-> FALSE, ctxHit |-> FALSE, ctxConfidence |-> None,
     ctxMatchDetails |-> None, ctxRejectedReason |-> "", ctxCandidateSummary |-> None]

NoRequest ==
    [pc |-> "idle", handler |-> "", hotelName |-> "", officialDomain |-> "",
     bookingSlug |-> "", refresh |-> FALSE,
     tokenKeyName |-> "", tokenKeyDomain |-> "", tokenKeyBooking |-> "", ctxKey |-> "",
     tokenObj |-> None, tokenCacheDetail |-> "miss", tokenValidation |-> None,
     ctxDebug |-> NoCtxDebug, picked |-> None, searchCandidateSummary |-> None,
     usage |-> [google_hotels |-> 0, google_hotels_property |-> 0],
     trace |-> <<>>, firstCall |-> None, dispatched |-> {}, response |-> None]

\* trace, firstCall and dispatched are the history of the invocation: the
\* reads and searches of its resolution, the answer of its live search, and
\* the kvPutJson calls it handed to ctx.waitUntil with the step that did.
Dispatch(by, writes) ==
    {[by |-> by, key |-> w.key, ttl |-> w.ttl, value |-> w.value] : w \in writes}

\* One entry of the trace: a cache read or a google_hotels call of the
\* resolution, the token it found and whether the record was accepted.
Visit(tier, key, found, accepted) ==
    [tier |-> tier, key |-> key, found |-> found, accepted |-> accepted]

\* ------------------------------------------------------------------------
\* routes/compare.js: handleCompare, one action per await-separated step.
\* q is the record of the locals after the step; the operators below give
\* the step the handler takes next.
\* ------------------------------------------------------------------------
\* Every TokenRecord the handlers write holds a number in confidence, so the
\* fallbacks of `tokenObj?.confidence ?? tokenObj?.nameScore ?? 0` are taken
\* only for a null tokenObj.
confidenceOf(tokenObj) == IF IsSome(tokenObj) THEN Get(tokenObj).confidence ELSE 0

startsWithHit(detail) == Len(detail) >= 4 /\ SubSeq(detail, 1, 4) = "hit-"

\* A verify condition that does not look at the record's candidateSummary
needsVerifyLookupWithoutRecordCheck(q) ==
    /\ confidenceOf(q.tokenObj) < 65 * Pct
    /\ ~IsSome(q.ctxDebug.ctxCandidateSummary)
    /\ ~IsSome(q.searchCandidateSummary)
    /\ ~q.refresh
    /\ startsWithHit(q.tokenCacheDetail) \/ q.tokenCacheDetail = "ctx-hit"

\* needsVerifyLookup (lines 458-466)
needsVerifyLookup(q) ==
    LET earlyMatchUncertain == confidenceOf(q.tokenObj) < 65 * Pct
        hasCachedToken == startsWithHit(q.tokenCacheDetail) \/ q.tokenCacheDetail = "ctx-hit"
    IN /\ earlyMatchUncertain
       /\ ~(IsSome(q.tokenObj) /\ IsSome(Get(q.tokenObj).candidateSummary))
       /\ ~IsSome(q.ctxDebug.ctxCandidateSummary)
       /\ ~IsSome(q.searchCandidateSummary)
       /\ ~q.refresh
       /\ hasCachedToken

afterSearch(q) == IF needsVerifyLookup(q) THEN "verify" ELSE "offers"

\* if (!tokenObj?.property_token) { ... live search ... }
afterName(q) == IF ~hasToken(q.tokenObj) THEN "search" ELSE afterSearch(q)

\* A handler that goes from the booking tier to the live search, past the
\* name key
afterBookingPastName(q) == IF ~hasToken(q.tokenObj) THEN "search" ELSE afterName(q)

\* 3) if (!tokenObj?.property_token)
afterBooking(q) == IF ~hasToken(q.tokenObj) THEN "name" ELSE afterName(q)

\* A handler whose tier 2.5 and 3 conditions forget `!tokenObj?.property_token`
afterDomainUnguarded(q) == IF q.tokenKeyBooking # "" THEN "booking" ELSE "name"

\* 2.5) if (!tokenObj?.property_token && tokenKeyBooking)
afterDomain(q) ==
    IF ~hasToken(q.tokenObj) /\ q.tokenKeyBooking # "" THEN "booking" ELSE afterBooking(q)

\* 2) if (!tokenObj?.property_token && tokenKeyDomain)
afterCtx(q) ==
    IF ~hasToken(q.tokenObj) /\ q.tokenKeyDomain # "" THEN "domain" ELSE afterDomain(q)

\* if (!refresh) { 1) if (ctxKey) ... }
firstStep(q) ==
    IF q.refresh THEN afterName(q)
    ELSE IF q.ctxKey # "" THEN "ctx" ELSE afterCtx(q)

\* The locals once the parameters are parsed (lines 124-214).  Requests that
\* fail the CORS, rate-limit, binding or parameter checks return before any
\* of this and are not modelled.
beginRequest(handler, hotelName, officialUrl, bookingSlug, ctxParam, refresh) ==
    LET officialDomain == getHostNoWww(officialUrl)
    IN [NoRequest EXCEPT
            !.handler = handler, !.hotelName = hotelName,
            !.officialDomain = officialDomain, !.bookingSlug = bookingSlug,
            !.refresh = refresh,
            !.tokenKeyName = tokenKeyNameOf(hotelName),
            !.tokenKeyDomain = tokenKeyDomainOf(officialDomain),
            !.tokenKeyBooking = tokenKeyBookingOf(bookingSlug),
            !.ctxKey = ctxKeyOf(ctxParam),
            !.ctxDebug = [NoCtxDebug EXCEPT !.ctxAttempted = ctxParam # ""]]

\* The invocation r goes on with the locals q at the step pc
Moved(r, q, pc) == req' = [req EXCEPT ![r] = [q EXCEPT !.pc = pc]]

CompareStartOf(r, inputs) ==
    /\ req[r].pc = "idle"
    /\ \E params \in inputs :
          LET enter(q) == Moved(r, q, firstStep(q))
          IN enter(beginRequest("compare", params.hotelName, params.officialUrl,
                                params.bookingSlug, params.ctxParam, params.refresh))
    /\ UNCHANGED <<kv, pending, prefetchCount, call>>

CompareStart(r) == CompareStartOf(r, RequestInputs)

bestTokenOf(picked) ==
    IF IsSome(picked) /\ IsSome(Get(picked).best) THEN bestOf(picked).property_token ELSE ""

\* picked.matchDetails?.hardMismatch
pickedHardMismatch(picked) ==
    /\ IsSome(picked)
    /\ IsSome(Get(picked).matchDetails)
    /\ Get(Get(picked).matchDetails).hardMismatch

optionalPut(key, obj, ttl) == IF key # "" THEN {kvPutJson(key, obj, ttl)} ELSE {}

\* if (picked?.best?.property_token && picked.confidence >= CTX_MIN_CONFIDENCE
\*     && !picked.matchDetails?.hardMismatch)
acceptsCtx(picked) ==
    /\ bestTokenOf(picked) # ""
    /\ Get(picked).confidence >= 55 * Pct
    /\ ~pickedHardMismatch(picked)

\* A ctx tier that backfills every accepted pick
ctxWritesWithoutThreshold(q, picked, tokenObj) ==
    IF acceptsCtx(picked)
    THEN {kvPutJson(q.tokenKeyName, tokenObj, "TOKEN_TTL_NO_DOMAIN_SEC")}
         \cup optionalPut(q.tokenKeyDomain, tokenObj, "TOKEN_TTL_SEC")
         \cup optionalPut(q.tokenKeyBooking, tokenObj, "TOKEN_TTL_NO_DOMAIN_SEC")
    ELSE {}

\* const shouldBackfill = picked.confidence >= 0.75, inside the accept branch
ctxWrites(q, picked, tokenObj) ==
    IF acceptsCtx(picked) /\ Get(picked).confidence >= 75 * Pct
    THEN {kvPutJson(q.tokenKeyName, tokenObj, "TOKEN_TTL_NO_DOMAIN_SEC")}
         \cup optionalPut(q.tokenKeyDomain, tokenObj, "TOKEN_TTL_SEC")
         \cup optionalPut(q.tokenKeyBooking, tokenObj, "TOKEN_TTL_NO_DOMAIN_SEC")
    ELSE {}

\* The locals after the ctx tier read ctxData and picked from its properties
ctxOutcome(q, ctxData, picked, ctxCandidateSummary, tokenObj) ==
    LET props == IF IsSome(ctxData) THEN Get(ctxData).properties ELSE <<>>
        scored(reason) ==
            [q EXCEPT !.picked = picked,
                      !.ctxDebug = [@ EXCEPT !.ctxRejectedReason = reason,
                                             !.ctxConfidence = Some(Get(picked).confidence),
                                             !.ctxMatchDetails = Get(picked).matchDetails,
                                             !.ctxCandidateSummary = ctxCandidateSummary]]
    IN IF ~IsSome(ctxData)
       THEN [q EXCEPT !.ctxDebug.ctxRejectedReason = "ctx_missing_or_expired"]
       ELSE IF Len(props) = 0
       THEN [q EXCEPT !.ctxDebug.ctxRejectedReason = "ctx_empty"]
       ELSE IF acceptsCtx(picked)
       THEN [scored("") EXCEPT !.tokenObj = Some(tokenObj),
                               !.tokenCacheDetail = "ctx-hit",
                               !.ctxDebug.ctxHit = TRUE]
       ELSE IF bestTokenOf(picked) # ""
       THEN [scored(IF Get(picked).confidence < 55 * Pct THEN "confidence_too_low"
                    ELSE IF pickedHardMismatch(picked) THEN "hard_mismatch"
                    ELSE "unknown")
                EXCEPT !.tokenCacheDetail = "ctx-nomatch"]
       ELSE scored("no_matching_property")

\* 1) Try search context first
CompareReadCtx(r) ==
    /\ req[r].pc = "ctx"
    /\ req[r].handler = "compare"
    /\ LET q == req[r]
           ctxData == kvGetJson(kv, q.ctxKey)
           leave(q2) == Moved(r, q2, afterCtx(q2))
           traced(picked, writes, q1) ==
               /\ leave([q1 EXCEPT
                            !.trace = Append(@, Visit("ctx", q.ctxKey, bestTokenOf(picked),
                                                      hasToken(q1.tokenObj))),
                            !.dispatched = @ \cup Dispatch("ctx", writes)])
               /\ pending' = pending \cup writes
           built(picked, ctxCandidateSummary, tokenObj) ==
               traced(picked, ctxWrites(q, picked, tokenObj),
                      ctxOutcome(q, ctxData, picked, ctxCandidateSummary, tokenObj))
           summarized(picked, ctxCandidateSummary) ==
               built(picked, ctxCandidateSummary,
                     ctxTokenObj(picked, q.officialDomain, ctxCandidateSummary))
           scoredCtx(picked) ==
               summarized(picked,
                          IF IsSome(picked)
                          THEN summarizeCandidates(Get(picked).allCandidates, 3)
                          ELSE None)
       IN scoredCtx(pickBestProperty(IF IsSome(ctxData) THEN Get(ctxData).properties
                                     ELSE <<>>,
                                     q.hotelName, q.officialDomain,
                                     altQueryOf(q.bookingSlug)))
    /\ UNCHANGED <<kv, prefetchCount, call>>

\* A handler that takes the record of a key as it is
readTokenTierUnvalidated(q, store, tier, key, source) ==
    LET read(tokenObj) ==
            [q EXCEPT !.tokenObj = tokenObj,
                      !.tokenCacheDetail = IF hasToken(tokenObj) THEN source ELSE @,
                      !.trace =
                          Append(@, Visit(tier, key,
                                          IF hasToken(tokenObj)
                                          THEN Get(tokenObj).property_token ELSE "",
                                          hasToken(tokenObj)))]
    IN read(kvGetJson(store, key))

\* The common shape of tiers 2, 2.5 and 3: read the key, validate the record
\* against the current query, drop it or merge the refreshed fields.
readTokenTier(q, store, tier, key, source) ==
    LET tokenObj == kvGetJson(store, key)
        checked(v) ==
            IF ~v.ok
            THEN [q EXCEPT !.tokenObj = None,
                           !.tokenCacheDetail = "invalid-" \o source \o ":" \o v.reason,
                           !.tokenValidation = Some([source |-> source] @@ v)]
            ELSE [q EXCEPT !.tokenObj = Some(assignUpdates(Get(tokenObj), Get(v.updates))),
                           !.tokenCacheDetail = source,
                           !.tokenValidation = Some([source |-> source] @@ v)]
        traced(q1) ==
            [q1 EXCEPT !.trace =
                Append(@, Visit(tier, key,
                                IF hasToken(tokenObj) THEN Get(tokenObj).property_token
                                ELSE "",
                                hasToken(q1.tokenObj)))]
    IN traced(IF ~hasToken(tokenObj) THEN [q EXCEPT !.tokenObj = tokenObj]
              ELSE checked(validateCachedToken(q.hotelName, q.officialDomain,
                                               Get(tokenObj), source)))

\* 2) Try domain key
CompareReadDomain(r) ==
    /\ req[r].pc = "domain"
    /\ req[r].handler = "compare"
    /\ LET leave(q) == Moved(r, q, afterDomain(q))
       IN leave(readTokenTier(req[r], kv, "domain", req[r].tokenKeyDomain, "hit-domain"))
    /\ UNCHANGED <<kv, pending, prefetchCount, call>>

\* 2.5) Try booking slug key
CompareReadBooking(r) ==
    /\ req[r].pc = "booking"
    /\ req[r].handler = "compare"
    /\ LET leave(q) == Moved(r, q, afterBooking(q))
       IN leave(readTokenTier(req[r], kv, "booking", req[r].tokenKeyBooking, "hit-booking"))
    /\ UNCHANGED <<kv, pending, prefetchCount, call>>

\* if (tokenKeyDomain) ctx.waitUntil(kvPutJson(..., tokenKeyDomain, tokenObj, ...))
nameWrites(q) ==
    IF hasToken(q.tokenObj)
    THEN optionalPut(q.tokenKeyDomain, Get(q.tokenObj), "TOKEN_TTL_SEC") ELSE {}

\* 3) Fallback to name key; an accepted record is copied to the domain key
CompareReadName(r) ==
    /\ req[r].pc = "name"
    /\ req[r].handler = "compare"
    /\ LET leave(q) ==
               /\ Moved(r, [q EXCEPT !.dispatched = @ \cup Dispatch("name", nameWrites(q))],
                        afterName(q))
               /\ pending' = pending \cup nameWrites(q)
       IN leave(readTokenTier(req[r], kv, "name", req[r].tokenKeyName, "hit-name"))
    /\ UNCHANGED <<kv, prefetchCount, call>>

\* jsonResponse of an error
errorResponse(status, error_code, q) ==
    [status |-> status, ok |-> FALSE, error_code |-> error_code, cache |-> "",
     property_token |-> "", match |-> None, matchUncertain |-> FALSE, usage |-> q.usage]

\* A live-search step that writes the name key whatever the confidence
searchWritesWithoutShouldCache(q, tokenObj, confidence) ==
    {kvPutJson(q.tokenKeyName, tokenObj,
               IF confidence >= 80 * Pct THEN "TOKEN_TTL_SEC"
               ELSE "TOKEN_TTL_NO_DOMAIN_SEC")}
    \cup (IF confidence >= 75 * Pct
          THEN optionalPut(q.tokenKeyDomain, tokenObj, "TOKEN_TTL_SEC") ELSE {})
    \cup (IF confidence >= 70 * Pct
          THEN optionalPut(q.tokenKeyBooking, tokenObj, "TOKEN_TTL_NO_DOMAIN_SEC")
          ELSE {})

\* const shouldCache = picked.confidence >= 0.65; if (shouldCache) { ... }
searchWrites(q, tokenObj, confidence) ==
    IF confidence >= 65 * Pct
    THEN {kvPutJson(q.tokenKeyName, tokenObj,
                    IF confidence >= 80 * Pct THEN "TOKEN_TTL_SEC"
                    ELSE "TOKEN_TTL_NO_DOMAIN_SEC")}
         \cup (IF confidence >= 75 * Pct
               THEN optionalPut(q.tokenKeyDomain, tokenObj, "TOKEN_TTL_SEC") ELSE {})
         \cup (IF confidence >= 70 * Pct
               THEN optionalPut(q.tokenKeyBooking, tokenObj, "TOKEN_TTL_NO_DOMAIN_SEC")
               ELSE {})
    ELSE {}

\* A live search whose failed call is taken for an empty candidate list
searchOutcomeFailedAsEmpty(q, firstCall, picked, searchCandidateSummary, tokenObj) ==
    LET found == firstCall.ok /\ bestTokenOf(picked) # ""
        counted == [q EXCEPT
                       !.tokenCacheDetail = "miss",
                       !.usage.google_hotels = @ + 1,
                       !.firstCall = Some(firstCall),
                       !.trace = Append(@, Visit("search", "",
                                                 IF found THEN bestTokenOf(picked) ELSE "",
                                                 found))]
    IN IF ~found
       THEN [counted EXCEPT !.picked = picked,
                            !.response =
                                Some(errorResponse(404, "NO_PROPERTY_FOUND", counted))]
       ELSE [counted EXCEPT !.tokenObj = Some(tokenObj), !.picked = picked,
                            !.searchCandidateSummary = searchCandidateSummary]

\* The locals after the live search answered firstCall and picked from it
searchOutcome(q, firstCall, picked, searchCandidateSummary, tokenObj) ==
    LET found == firstCall.ok /\ bestTokenOf(picked) # ""
        counted == [q EXCEPT
                       !.tokenCacheDetail = "miss",
                       !.usage.google_hotels = @ + 1,
                       !.firstCall = Some(firstCall),
                       !.trace = Append(@, Visit("search", "",
                                                 IF found THEN bestTokenOf(picked) ELSE "",
                                                 found))]
    IN IF ~firstCall.ok
       THEN [counted EXCEPT !.response = Some(errorResponse(502, "SEARCH_FAILED", counted))]
       ELSE IF ~found
       THEN [counted EXCEPT !.picked = picked,
                            !.response =
                                Some(errorResponse(404, "NO_PROPERTY_FOUND", counted))]
       ELSE [counted EXCEPT !.tokenObj = Some(tokenObj), !.picked = picked,
                            !.searchCandidateSummary = searchCandidateSummary]

\* The live google_hotels search of the resolution (lines 348-453)
CompareSearchOf(r, outcomes) ==
    /\ req[r].pc = "search"
    /\ req[r].handler = "compare"
    /\ \E firstCall \in outcomes :
          LET q == req[r]
              leave(q1) ==
                  Moved(r, q1, IF IsSome(q1.response) THEN "done" ELSE afterSearch(q1))
              stored(writes, q1) ==
                  /\ leave([q1 EXCEPT !.dispatched = @ \cup Dispatch("search", writes)])
                  /\ pending' = pending \cup writes
              built(picked, searchCandidateSummary, tokenObj) ==
                  stored(IF firstCall.ok /\ bestTokenOf(picked) # ""
                         THEN searchWrites(q, tokenObj, Get(picked).confidence) ELSE {},
                         searchOutcome(q, firstCall, picked, searchCandidateSummary, tokenObj))
              summarized(picked, searchCandidateSummary) ==
                  built(picked, searchCandidateSummary,
                        searchTokenObj(picked, q.officialDomain, searchCandidateSummary))
              answered(picked) ==
                  summarized(picked,
                             IF IsSome(picked)
                             THEN summarizeCandidates(Get(picked).allCandidates, 3)
                             ELSE None)
          IN answered(pickBestProperty(firstCall.properties, q.hotelName,
                                       q.officialDomain, altQueryOf(q.bookingSlug)))
    /\ UNCHANGED <<kv, prefetchCount, call>>

CompareSearch(r) == CompareSearchOf(r, SearchOutcomes)

\* Re-cache with the updated candidateSummary (lines 505-512)
verifyWrites(q, tokenObj) ==
    LET backfillTtl == IF q.tokenKeyDomain # "" THEN "TOKEN_TTL_SEC"
                       ELSE "TOKEN_TTL_NO_DOMAIN_SEC"
    IN IF q.tokenCacheDetail = "hit-domain" /\ q.tokenKeyDomain # ""
       THEN {kvPutJson(q.tokenKeyDomain, tokenObj, "TOKEN_TTL_SEC")}
       ELSE IF q.tokenCacheDetail = "hit-booking" /\ q.tokenKeyBooking # ""
       THEN {kvPutJson(q.tokenKeyBooking, tokenObj, "TOKEN_TTL_NO_DOMAIN_SEC")}
       ELSE IF q.tokenCacheDetail = "hit-name"
       THEN {kvPutJson(q.tokenKeyName, tokenObj, backfillTtl)}
       ELSE {}

\* Verify lookup for an uncertain cached token without candidateSummary
CompareVerifyOf(r, outcomes) ==
    /\ req[r].pc = "verify"
    /\ req[r].handler = "compare"
    /\ \E verifyCall \in outcomes :
          LET q == [req[r] EXCEPT !.usage.google_hotels = @ + 1,
                                  !.trace = Append(@, Visit("verify", "", "", FALSE))]
              backfilled(verifyPicked, verifySummary, tokenObj) ==
                  /\ Moved(r, [q EXCEPT !.picked = verifyPicked,
                                        !.searchCandidateSummary = verifySummary,
                                        !.tokenObj = Some(tokenObj),
                                        !.dispatched =
                                            @ \cup Dispatch("verify", verifyWrites(q, tokenObj))],
                           "offers")
                  /\ pending' = pending \cup verifyWrites(q, tokenObj)
              marked(verifyPicked, verifySummary) ==
                  backfilled(verifyPicked, verifySummary,
                             [Get(q.tokenObj) EXCEPT !.candidateSummary = verifySummary])
              summarized(verifyPicked, summary) ==
                  marked(verifyPicked, Some([Get(summary) EXCEPT !.fromVerify = TRUE]))
              answered(verifyPicked) ==
                  IF verifyCall.ok /\ IsSome(verifyPicked)
                  THEN summarized(verifyPicked,
                                  summarizeCandidates(Get(verifyPicked).allCandidates, 3))
                  ELSE /\ Moved(r, q, "offers")
                       /\ UNCHANGED pending
          IN answered(pickBestProperty(verifyCall.properties, q.hotelName,
                                       q.officialDomain, altQueryOf(q.bookingSlug)))
    /\ UNCHANGED <<kv, prefetchCount, call>>

CompareVerify(r) == CompareVerifyOf(r, SearchOutcomes)

\* The match object of a 200 response (lines 544-576 for offers = "hit",
\* 745-782 for "miss").  The handler of src/routes/compare.js reports no
\* candidateSummary.
matchOf(q, offers) ==
    LET tokenObj == Get(q.tokenObj)
        matchConfidence == confidenceOf(q.tokenObj)
        matchUncertain == matchConfidence < 65 * Pct
        source ==
            IF q.handler # "compare" \/ ~matchUncertain THEN ""
            ELSE IF offers = "miss" /\ IsSome(q.searchCandidateSummary)
            THEN (IF Get(q.searchCandidateSummary).fromVerify THEN "verify" ELSE "searchapi")
            ELSE IF IsSome(q.ctxDebug.ctxCandidateSummary) THEN "ctx"
            ELSE IF IsSome(tokenObj.candidateSummary) THEN "token"
            ELSE ""
        candidateSummary ==
            IF source \in {"verify", "searchapi"} THEN q.searchCandidateSummary
            ELSE IF source = "ctx" THEN q.ctxDebug.ctxCandidateSummary
            ELSE IF source = "token" THEN tokenObj.candidateSummary
            ELSE None
    IN [cacheDetail |-> [token |-> q.tokenCacheDetail, offers |-> offers],
        confidence |-> matchConfidence,
        matchedHotelName |-> tokenObj.property_name,
        nameScore |-> tokenObj.nameScore,
        domainMatch |-> tokenObj.domainMatch,
        linkHost |-> tokenObj.linkHost,
        matchDetails |-> tokenObj.matchDetails,
        ctxDebug |-> q.ctxDebug,
        candidateSummary |-> candidateSummary,
        candidateSummarySource |-> source]

\* The payload of a fresh offers fetch
payloadOf(q) ==
    [status |-> 200, ok |-> TRUE, error_code |-> "", cache |-> "miss",
     property_token |-> Get(q.tokenObj).property_token,
     match |-> Some(matchOf(q, "miss")),
     matchUncertain |-> confidenceOf(q.tokenObj) < 65 * Pct,
     usage |-> q.usage]

\* What a later cache hit takes over from the stored payload
toCache(payload) == [ok |-> payload.ok, property_token |-> payload.property_token]

\* { ...cached, cache: "hit", match, matchUncertain, usage: zeros }
hydrated(q, cached) ==
    [status |-> 200, ok |-> cached.ok, error_code |-> "", cache |-> "hit",
     property_token |-> cached.property_token,
     match |-> Some(matchOf(q, "hit")),
     matchUncertain |-> confidenceOf(q.tokenObj) < 65 * Pct,
     usage |-> [google_hotels |-> 0, google_hotels_property |-> 0]]

\* 2) Offers cache
CompareReadOffers(r) ==
    /\ req[r].pc = "offers"
    /\ LET q == req[r]
           offersKey == offersKeyOf(Get(q.tokenObj).property_token)
           cached == IF ~q.refresh THEN kvGetJson(kv, offersKey) ELSE None
       IN req' = [req EXCEPT ![r] =
              IF IsSome(cached)
              THEN [q EXCEPT !.pc = "done", !.response = Some(hydrated(q, Get(cached)))]
              ELSE [q EXCEPT !.pc = "fetch"]]
    /\ UNCHANGED <<kv, pending, prefetchCount, call>>

\* 3) Fetch property offers (google_hotels_property); propOk is
\* propRes && propRes.ok && !propData.error && propData.property
CompareFetchOffers(r) ==
    /\ req[r].pc = "fetch"
    /\ \E propOk \in BOOLEAN :
          LET failed(q) ==
                  /\ Moved(r, [q EXCEPT !.response = Some(errorResponse(502, "", q))], "done")
                  /\ UNCHANGED pending
              answered(q, payload, writes) ==
                  /\ Moved(r, [q EXCEPT !.response = Some(payload),
                                        !.dispatched = @ \cup Dispatch("offers", writes)],
                           "done")
                  /\ pending' = pending \cup writes
              cached(q, payload) ==
                  answered(q, payload,
                           {kvPutJson(offersKeyOf(Get(q.tokenObj).property_token),
                                      toCache(payload), "OFFERS_TTL_SEC")})
              fetched(q) == IF ~propOk THEN failed(q) ELSE cached(q, payloadOf(q))
          IN fetched([req[r] EXCEPT !.usage.google_hotels_property = @ + 1])
    /\ UNCHANGED <<kv, prefetchCount, call>>

\* A detached kvPutJson reaches the store
ApplyWrite ==
    /\ \E w \in pending :
          /\ kv' = (w.key :> w.value) @@ kv
          /\ pending' = pending \ {w}
    /\ UNCHANGED <<req, prefetchCount, call>>

\* ------------------------------------------------------------------------
\* routes/prefetchCtx.js: handlePrefetchCtx for a request that passed the
\* CORS, binding, parameter and rate-limit checks.  ctxParam stands for
\* computeCtxId(gl, hlKey, q, checkIn, checkOut, adults, currency).
\* ------------------------------------------------------------------------
\* A filter that keeps every property of the answer
keepsAnyProperty(p) == p.name = p.name

hasPropertyToken(p) == p.property_token # ""

HandlePrefetchCtx ==
    /\ prefetchCount < MaxPrefetch
    /\ prefetchCount' = prefetchCount + 1
    /\ \E ctxParam \in CtxParams \ {""}, refresh \in BOOLEAN, searchCall \in SearchOutcomes :
          LET ctxKey == ctxKeyOf(ctxParam)
              cached == kvGetJson(kv, ctxKey)
              ctxData == [properties |-> SelectSeq(searchCall.properties, hasPropertyToken)]
          IN IF (~refresh /\ IsSome(cached)) \/ ~searchCall.ok
             THEN UNCHANGED pending
             ELSE pending' = pending \cup {kvPutJson(ctxKey, ctxData, "CTX_TTL_SEC")}
    /\ UNCHANGED <<kv, req, call>>

\* ------------------------------------------------------------------------
\* src/routes/compare.js: the handleCompare of that file.  It has no booking
\* tier, no verify lookup and no candidateSummary, and it takes a cached
\* record as it is.
\* ------------------------------------------------------------------------
legacyAfterName(q) == IF ~hasToken(q.tokenObj) THEN "search" ELSE "offers"

legacyAfterDomain(q) == IF ~hasToken(q.tokenObj) THEN "name" ELSE legacyAfterName(q)

legacyAfterCtx(q) ==
    IF ~hasToken(q.tokenObj) /\ q.tokenKeyDomain # "" THEN "domain"
    ELSE legacyAfterDomain(q)

legacyFirstStep(q) ==
    IF q.refresh THEN legacyAfterName(q)
    ELSE IF q.ctxKey # "" THEN "ctx" ELSE legacyAfterCtx(q)

LegacyStart(r) ==
    /\ req[r].pc = "idle"
    /\ \E params \in {i \in RequestInputs : i.bookingSlug = ""} :
          LET enter(q) == Moved(r, q, legacyFirstStep(q))
          IN enter(beginRequest("legacy", params.hotelName, params.officialUrl, "",
                                params.ctxParam, params.refresh))
    /\ UNCHANGED <<kv, pending, prefetchCount, call>>

\* The ctx tier of that file: the same acceptance and backfill, without
\* altQuery, candidateSummary and booking key
LegacyReadCtx(r) ==
    /\ req[r].pc = "ctx"
    /\ req[r].handler = "legacy"
    /\ LET q == req[r]
           ctxData == kvGetJson(kv, q.ctxKey)
           leave(q2) == Moved(r, q2, legacyAfterCtx(q2))
           traced(picked, writes, q1) ==
               /\ leave([q1 EXCEPT
                            !.trace = Append(@, Visit("ctx", q.ctxKey, bestTokenOf(picked),
                                                      hasToken(q1.tokenObj))),
                            !.dispatched = @ \cup Dispatch("ctx", writes)])
               /\ pending' = pending \cup writes
           built(picked, tokenObj) ==
               traced(picked, ctxWrites(q, picked, tokenObj),
                      ctxOutcome(q, ctxData, picked, None, tokenObj))
           scoredCtx(picked) == built(picked, ctxTokenObj(picked, q.officialDomain, None))
       IN scoredCtx(pickBestProperty(IF IsSome(ctxData) THEN Get(ctxData).properties
                                     ELSE <<>>,
                                     q.hotelName, q.officialDomain, ""))
    /\ UNCHANGED <<kv, prefetchCount, call>>

\* tokenObj = await kvGetJson(...); if (tokenObj?.property_token) tokenCacheDetail = source
legacyReadTier(q, store, tier, key, source) ==
    LET read(tokenObj) ==
            [q EXCEPT !.tokenObj = tokenObj,
                      !.tokenCacheDetail = IF hasToken(tokenObj) THEN source ELSE @,
                      !.trace =
                          Append(@, Visit(tier, key,
                                          IF hasToken(tokenObj)
                                          THEN Get(tokenObj).property_token ELSE "",
                                          hasToken(tokenObj)))]
    IN read(kvGetJson(store, key))

LegacyReadDomain(r) ==
    /\ req[r].pc = "domain"
    /\ req[r].handler = "legacy"
    /\ LET leave(q) == Moved(r, q, legacyAfterDomain(q))
       IN leave(legacyReadTier(req[r], kv, "domain", req[r].tokenKeyDomain, "hit-domain"))
    /\ UNCHANGED <<kv, pending, prefetchCount, call>>

LegacyReadName(r) ==
    /\ req[r].pc = "name"
    /\ req[r].handler = "legacy"
    /\ LET leave(q) ==
               /\ Moved(r, [q EXCEPT !.dispatched = @ \cup Dispatch("name", nameWrites(q))],
                        legacyAfterName(q))
               /\ pending' = pending \cup nameWrites(q)
       IN leave(legacyReadTier(req[r], kv, "name", req[r].tokenKeyName, "hit-name"))
    /\ UNCHANGED <<kv, prefetchCount, call>>

legacySearchWrites(q, tokenObj, confidence) ==
    IF confidence >= 65 * Pct
    THEN {kvPutJson(q.tokenKeyName, tokenObj,
                    IF confidence >= 80 * Pct THEN "TOKEN_TTL_SEC"
                    ELSE "TOKEN_TTL_NO_DOMAIN_SEC")}
         \cup (IF confidence >= 75 * Pct
               THEN optionalPut(q.tokenKeyDomain, tokenObj, "TOKEN_TTL_SEC") ELSE {})
    ELSE {}

LegacySearch(r) ==
    /\ req[r].pc = "search"
    /\ req[r].handler = "legacy"
    /\ \E firstCall \in SearchOutcomes :
          LET q == req[r]
              leave(q1) == Moved(r, q1, IF IsSome(q1.response) THEN "done" ELSE "offers")
              stored(writes, q1) ==
                  /\ leave([q1 EXCEPT !.dispatched = @ \cup Dispatch("search", writes)])
                  /\ pending' = pending \cup writes
              built(picked, tokenObj) ==
                  stored(IF firstCall.ok /\ bestTokenOf(picked) # ""
                         THEN legacySearchWrites(q, tokenObj, Get(picked).confidence)
                         ELSE {},
                         searchOutcome(q, firstCall, picked, None, tokenObj))
              answered(picked) == built(picked, searchTokenObj(picked, q.officialDomain, None))
          IN answered(pickBestProperty(firstCall.properties, q.hotelName,
                                       q.officialDomain, ""))
    /\ UNCHANGED <<kv, prefetchCount, call>>

\* ------------------------------------------------------------------------
\* Initial states.  CACHE_KV outlives a request: it starts empty or with what
\* the live-search step of an earlier request wrote (all its detached writes
\* applied).
\* ------------------------------------------------------------------------
\* The store after the writes, which have distinct keys
applyWrites(store, writes) ==
    [k \in DOMAIN store \cup {w.key : w \in writes} |->
        IF \E w \in writes : w.key = k
        THEN (CHOOSE w \in writes : w.key = k).value
        ELSE store[k]]

\* The writes of an earlier handleCompare request whose google_hotels search
\* answered with properties
earlierWrites(hotelName, officialUrl, bookingSlug, properties) ==
    LET built(q, picked, tokenObj) == searchWrites(q, tokenObj, Get(picked).confidence)
        summarized(q, picked, searchCandidateSummary) ==
            built(q, picked, searchTokenObj(picked, q.officialDomain, searchCandidateSummary))
        answered(q, picked) ==
            summarized(q, picked, summarizeCandidates(Get(picked).allCandidates, 3))
        entered(q) ==
            answered(q, pickBestProperty(properties, hotelName, q.officialDomain,
                                         altQueryOf(bookingSlug)))
    IN entered(beginRequest("compare", hotelName, officialUrl, bookingSlug, "", FALSE))

\* The same for the handler of src/routes/compare.js
earlierLegacyWrites(hotelName, officialUrl, properties) ==
    LET built(q, picked, tokenObj) == legacySearchWrites(q, tokenObj, Get(picked).confidence)
        answered(q, picked) == built(q, picked, searchTokenObj(picked, q.officialDomain, None))
        entered(q) ==
            answered(q, pickBestProperty(properties, hotelName, q.officialDomain, ""))
    IN entered(beginRequest("legacy", hotelName, officialUrl, "", "", FALSE))

EmptyCache == <<>>

\* "Alda Hotel" of example.com, under its name key and its domain key
CacheA ==
    applyWrites(EmptyCache,
                earlierWrites("Alda Hotel", "https://www.example.com/", "", <<AldaHotel>>))

\* and another token under the name key of "Alda Hotel Reykjavík"
CacheB ==
    applyWrites(CacheA, earlierWrites("Alda Hotel Reykjav|k", "", "", <<AldaHotelOta>>))

\* and a record under the booking key
CacheD ==
    applyWrites(CacheB, {w \in earlierWrites("Alda Hotel", "", "alda-hotel", <<AldaHotelOta>>) :
                            w.key = tokenKeyBookingOf("alda-hotel")})

\* Records written by the handler of src/routes/compare.js
LegacyCacheA ==
    applyWrites(EmptyCache,
                earlierLegacyWrites("Alda Hotel", "https://www.example.com/", <<AldaHotel>>))

LegacyCacheC ==
    applyWrites(EmptyCache,
                earlierLegacyWrites("Alda Hotel, Reykjav|k", "https://www.example.com/",
                                    <<AldaInn>>))

InitialCaches == {EmptyCache, CacheA, CacheB, CacheD, LegacyCacheC}

LegacyCaches == {EmptyCache, LegacyCacheA, LegacyCacheC}

Requests == 1..MaxRequests

NoCall == [op |-> "none"]

Init ==
    /\ kv \in InitialCaches
    /\ pending = {}
    /\ req = [r \in Requests |-> NoRequest]
    /\ prefetchCount = 0
    /\ call = NoCall

Next ==
    \/ \E r \in Requests : CompareStart(r)
    \/ \E r \in Requests : CompareReadCtx(r)
    \/ \E r \in Requests : CompareReadDomain(r)
    \/ \E r \in Requests : CompareReadBooking(r)
    \/ \E r \in Requests : CompareReadName(r)
    \/ \E r \in Requests : CompareSearch(r)
    \/ \E r \in Requests : CompareVerify(r)
    \/ \E r \in Requests : CompareReadOffers(r)
    \/ \E r \in Requests : CompareFetchOffers(r)
    \/ ApplyWrite
    \/ HandlePrefetchCtx

Spec == Init /\ [][Next]_vars

InitLegacy ==
    /\ kv \in LegacyCaches
    /\ pending = {}
    /\ req = [r \in Requests |-> NoRequest]
    /\ prefetchCount = 0
    /\ call = NoCall

NextLegacy ==
    \/ \E r \in Requests : LegacyStart(r)
    \/ \E r \in Requests : LegacyReadCtx(r)
    \/ \E r \in Requests : LegacyReadDomain(r)
    \/ \E r \in Requests : LegacyReadName(r)
    \/ \E r \in Requests : LegacySearch(r)
    \/ \E r \in Requests : CompareReadOffers(r)
    \/ \E r \in Requests : CompareFetchOffers(r)
    \/ ApplyWrite
    \/ HandlePrefetchCtx

SpecLegacy == InitLegacy /\ [][NextLegacy]_vars

\* ------------------------------------------------------------------------
\* The functions of lib/matching.js and summarizeCandidates applied by a
\* direct caller (the tests of the repository call them so), over more
\* arguments than the requests above reach.
\* ------------------------------------------------------------------------
\* A TokenRecord of the cache as validateCachedToken reads it: the property
\* it was written for, with or without the stored linkHost
CachedRecord(p, withLinkHost) ==
    [property_token |-> p.property_token, property_name |-> p.name, city |-> p.city,
     country |-> p.country, link |-> p.link,
     linkHost |-> IF withLinkHost THEN getHostNoWww(p.link) ELSE "",
     score |-> 0, nameScore |-> 0, confidence |-> 0, domainMatch |-> FALSE,
     officialDomain |-> "", coreOverlapAny |-> None, matchDetails |-> None,
     fromCtx |-> FALSE, candidateSummary |-> None]

NamelessRecord == [CachedRecord(AldaHotel, TRUE) EXCEPT !.property_name = ""]

CachedRecords ==
    {CachedRecord(p, b) : p \in AllProperties \ {NoTokenHotel}, b \in BOOLEAN}
    \cup {NamelessRecord}

Sources == {"hit-domain", "hit-booking", "hit-name"}

OfficialDomains == {getHostNoWww(u) : u \in OfficialUrls}

RECURSIVE SeqsUpTo(_, _)
SeqsUpTo(S, n) ==
    IF n = 0 THEN {<<>>}
    ELSE SeqsUpTo(S, n - 1)
         \cup {Append(l, e) : l \in {t \in SeqsUpTo(S, n - 1) : Len(t) = n - 1}, e \in S}

\* Lists with more candidates than a summary keeps
LongLists ==
    {<<AldaInn, AldaHotelOta, GrandHotel, AldaHotel>>,
     <<HiltonAlda, GrandHotel, AldaHotel, AldaInn, AldaHotelOta>>}

CandidateLists == SeqsUpTo(AllProperties, MaxProps) \cup LongLists

\* baseScore values from 0 to beyond 1, in steps of 0.05
ScoreGrid == {k * 5 * Pct : k \in 0..GridSteps}

InitFn ==
    /\ kv = EmptyCache
    /\ pending = {}
    /\ req = [r \in Requests |-> NoRequest]
    /\ prefetchCount = 0
    /\ call = NoCall

ApplyValidate ==
    /\ call.op = "none"
    /\ \E hotelName \in AllHotelNames, officialDomain \in OfficialDomains,
          tokenObj \in CachedRecords, source \in Sources :
          call' = [op |-> "validateCachedToken", hotelName |-> hotelName,
                   officialDomain |-> officialDomain, tokenObj |-> tokenObj,
                   source |-> source,
                   result |-> validateCachedToken(hotelName, officialDomain, tokenObj,
                                                  source)]
    /\ UNCHANGED <<kv, pending, req, prefetchCount>>

ApplyPick ==
    /\ call.op = "none"
    /\ \E properties \in CandidateLists, hotelName \in AllHotelNames,
          officialDomain \in OfficialDomains, altQuery \in AltQueries :
          LET summarized(picked) ==
                  call' = [op |-> "pickBestProperty", properties |-> properties,
                           hotelName |-> hotelName, officialDomain |-> officialDomain,
                           altQuery |-> altQuery, result |-> picked,
                           summary |-> IF IsSome(picked)
                                       THEN summarizeCandidates(Get(picked).allCandidates, 3)
                                       ELSE None]
          IN summarized(pickBestProperty(properties, hotelName, officialDomain, altQuery))
    /\ UNCHANGED <<kv, pending, req, prefetchCount>>

ApplyConfidence ==
    /\ call.op = "none"
    /\ \E domainMatch \in BOOLEAN, baseScore \in ScoreGrid, hardMismatch \in BOOLEAN :
          call' = [op |-> "computeConfidence", domainMatch |-> domainMatch,
                   baseScore |-> baseScore, hardMismatch |-> hardMismatch,
                   result |-> computeConfidence(domainMatch, baseScore, hardMismatch)]
    /\ UNCHANGED <<kv, pending, req, prefetchCount>>

Return ==
    /\ call.op # "none"
    /\ call' = NoCall
    /\ UNCHANGED <<kv, pending, req, prefetchCount>>

NextFn ==
    \/ ApplyValidate
    \/ ApplyPick
    \/ ApplyConfidence
    \/ Return

SpecFn == InitFn /\ [][NextFn]_vars

\* ------------------------------------------------------------------------
\* Properties
\* ------------------------------------------------------------------------
\* The record re-scored against the request's name is a hard mismatch
hardMismatches(hotelName, tokenObj) ==
    scoreOf(stripTrailingLocationSuffix(hotelName, tokenObj.city, tokenObj.country).stripped,
            tokenObj.property_name, tokenObj.city, tokenObj.country).hardMismatch

\* The invocation r holds a token it took from the domain, booking or name key
servedFromCache(r) == hasToken(req[r].tokenObj) /\ startsWithHit(req[r].tokenCacheDetail)

\* The invocation r answered 200
succeeded(r) == IsSome(req[r].response) /\ Get(req[r].response).status = 200

\* C1: a record read from the domain, booking or name key supplies the token
\* of the request only if validateCachedToken, run for that tier against the
\* request's hotelName and officialDomain, returned ok; and no success
\* response carries a cached token whose property_name hard-mismatches the
\* request's hotelName.
C1_CachedTokenOnlyIfValidated ==
    \A r \in Requests :
        (succeeded(r) /\ servedFromCache(r))
        => /\ Get(req[r].response).property_token = Get(req[r].tokenObj).property_token
           /\ IsSome(req[r].tokenValidation)
           /\ Get(req[r].tokenValidation).ok
           /\ Get(req[r].tokenValidation).source = req[r].tokenCacheDetail
           /\ ~hardMismatches(req[r].hotelName, Get(req[r].tokenObj))

\* The place of a tier in the order of the resolution
TierRank(tier) ==
    CASE tier = "ctx" -> 1 [] tier = "domain" -> 2 [] tier = "booking" -> 3
      [] tier = "name" -> 4 [] tier = "search" -> 5 [] tier = "verify" -> 6

\* C2: one resolution visits the tiers in the order ctx, domain key, booking
\* key, name key, live search; a tier is visited only if no earlier tier
\* yielded an accepted record, so the live search runs only after every
\* visited cache tier failed; and the token of the request is the one the
\* accepting tier found.
C2_TiersInPriorityOrder ==
    \A r \in Requests :
        LET t == req[r].trace
        IN /\ \A i, j \in 1..Len(t) : i < j => TierRank(t[i].tier) < TierRank(t[j].tier)
           /\ \A i, j \in 1..Len(t) : (i < j /\ t[j].tier # "verify") => ~t[i].accepted
           /\ hasToken(req[r].tokenObj)
              => \E i \in 1..Len(t) :
                    /\ t[i].accepted
                    /\ t[i].found = Get(req[r].tokenObj).property_token

\* The domain key and the name key both hold a record that validates for the
\* request, with different tokens, and the response carries the domain one
C2_DomainBeatsName ==
    \E r \in Requests :
        /\ succeeded(r)
        /\ req[r].tokenCacheDetail = "hit-domain"
        /\ req[r].tokenKeyName \in DOMAIN kv
        /\ req[r].tokenKeyDomain \in DOMAIN kv
        /\ kv[req[r].tokenKeyName].property_token # kv[req[r].tokenKeyDomain].property_token
        /\ validateCachedToken(req[r].hotelName, req[r].officialDomain,
                               kv[req[r].tokenKeyName], "hit-name").ok
        /\ Get(req[r].response).property_token = kv[req[r].tokenKeyDomain].property_token

\* The trace of r holds a google_hotels call: the live search or the verify lookup
searched(r) ==
    \E i \in 1..Len(req[r].trace) : req[r].trace[i].tier \in {"search", "verify"}

\* C3: a request resolved by the hit-domain tier makes no google_hotels call
\* (no live search, no verify lookup), its confidence is at least 0.65, and
\* its success response reports matchUncertain = false.
C3_HitDomainNeedsNoSearch ==
    \A r \in Requests :
        (hasToken(req[r].tokenObj) /\ req[r].tokenCacheDetail = "hit-domain")
        => /\ ~searched(r)
           /\ req[r].usage.google_hotels = 0
           /\ req[r].pc # "verify"
           /\ confidenceOf(req[r].tokenObj) >= 65 * Pct
           /\ succeeded(r)
              => /\ ~Get(req[r].response).matchUncertain
                 /\ Get(Get(req[r].response).match).confidence >= 65 * Pct
                 /\ Get(Get(req[r].response).match).cacheDetail.token = "hit-domain"

\* The scenario of the spec: tok:us:d:example.com holds T1 "Alda Hotel", the
\* request is "Alda Hotel Reykjavík" with officialDomain example.com and no
\* ctx, and the response carries T1 by hit-domain
C3_AldaHotelByDomain ==
    \E r \in Requests :
        /\ succeeded(r)
        /\ req[r].hotelName = "Alda Hotel Reykjav|k"
        /\ req[r].officialDomain = "example.com"
        /\ req[r].ctxKey = ""
        /\ Get(req[r].response).property_token = "T1"
        /\ Get(Get(req[r].response).match).cacheDetail.token = "hit-domain"
        /\ Get(Get(req[r].response).match).matchedHotelName = "Alda Hotel"
        /\ req[r].usage.google_hotels = 0

\* The staleness scenario: the request "Completely Different Hostel" with
\* officialDomain example.com has read T1 from the domain key
staleDomainRead(r) ==
    /\ req[r].hotelName = "Completely Different Hostel"
    /\ req[r].officialDomain = "example.com"
    /\ \E i \in 1..Len(req[r].trace) :
          req[r].trace[i].tier = "domain" /\ req[r].trace[i].found = "T1"

\* C4 as the spec states it: in the staleness scenario validateCachedToken
\* rejects the record with reason hard_mismatch.
C4_RejectedAsHardMismatch ==
    \A r \in Requests :
        staleDomainRead(r)
        => /\ IsSome(req[r].tokenValidation)
           /\ ~Get(req[r].tokenValidation).ok
           /\ Get(req[r].tokenValidation).reason = "hard_mismatch"

\* C4, amended: in the staleness scenario validateCachedToken rejects the
\* record for source hit-domain, but with reason domain_hit_but_name_too_low
\* and no hard mismatch (the names share no brand or key signal to conflict
\* on; the type difference is a score penalty only); the cached record is not
\* used, and the resolution goes on to the live search.
C4_StaleRecordRejectedAsTooLow ==
    \A r \in Requests :
        staleDomainRead(r)
        => /\ IsSome(req[r].tokenValidation)
           /\ Get(req[r].tokenValidation).source = "hit-domain"
           /\ ~Get(req[r].tokenValidation).ok
           /\ Get(req[r].tokenValidation).reason = "domain_hit_but_name_too_low"
           /\ ~Get(Get(req[r].tokenValidation).details).hardMismatch
           /\ ~startsWithHit(req[r].tokenCacheDetail)
           /\ \/ req[r].pc \in {"booking", "name", "search"}
              \/ \E j \in 1..Len(req[r].trace) : req[r].trace[j].tier = "search"

\* The staleness scenario with the name key empty and the live search made
C4_StaleRecordThenSearch ==
    \E r \in Requests :
        /\ staleDomainRead(r)
        /\ \E j \in 1..Len(req[r].trace) :
              req[r].trace[j].tier = "name" /\ req[r].trace[j].found = ""
        /\ \E j \in 1..Len(req[r].trace) : req[r].trace[j].tier = "search"

\* The arguments of a validateCachedToken call scored independently of it
rescoreOf(c) ==
    scoreOf(stripTrailingLocationSuffix(c.hotelName, c.tokenObj.city,
                                        c.tokenObj.country).stripped,
            c.tokenObj.property_name, c.tokenObj.city, c.tokenObj.country)

recordHostOf(c) ==
    IF c.tokenObj.linkHost # "" THEN c.tokenObj.linkHost ELSE getHostNoWww(c.tokenObj.link)

recordOnDomain(c) ==
    c.officialDomain # "" /\ domainsEquivalent(recordHostOf(c), c.officialDomain)

\* The confidence of the spec: min(0.95, baseScore), plus 0.15 capped at 0.95
\* when the domain matches with core overlap and baseScore >= 0.65
reconfidenceOf(c) ==
    LET rescored(d) ==
            IF recordOnDomain(c) /\ d.coreOverlapAny /\ d.baseScore >= 65 * Pct
            THEN Min(95 * Pct, Min(95 * Pct, d.baseScore) + 15 * Pct)
            ELSE Min(95 * Pct, d.baseScore)
    IN rescored(rescoreOf(c))

validatesBySpec(c) ==
    /\ c.tokenObj.property_name # ""
    /\ ~rescoreOf(c).hardMismatch
    /\ IF c.source = "hit-domain"
       THEN rescoreOf(c).baseScore >= 70 * Pct /\ rescoreOf(c).coreOverlapAny
       ELSE reconfidenceOf(c) >= 55 * Pct

\* C5: validateCachedToken returns ok exactly when the record has a
\* property_name, the re-score of the stripped query against it is no hard
\* mismatch, and for hit-domain baseScore >= 0.70 with coreOverlapAny, for
\* hit-booking and hit-name confidence >= 0.55; a hard mismatch rejects for
\* every source with reason hard_mismatch.
C5_ValidateOkExactlyWhen ==
    call.op = "validateCachedToken"
    => /\ call.result.ok <=> validatesBySpec(call)
       /\ (call.tokenObj.property_name # "" /\ rescoreOf(call).hardMismatch)
          => (~call.result.ok /\ call.result.reason = "hard_mismatch")

\* A record accepted for hit-name that hit-domain would not accept
C5_NameAcceptsBelowDomainFloor ==
    /\ call.op = "validateCachedToken"
    /\ call.source = "hit-name"
    /\ call.result.ok
    /\ call.result.baseScore < 70 * Pct

\* A confidence of the range [0, 0.95] that is 0 under a hard mismatch;
\* details is the matchDetails beside it, or None
confidenceInRange(confidence, details) ==
    /\ confidence >= 0
    /\ confidence <= 95 * Pct
    /\ (IsSome(details) /\ Get(details).hardMismatch) => confidence = 0

recordInRange(tokenObj) == confidenceInRange(tokenObj.confidence, tokenObj.matchDetails)

pickedInRange(picked) ==
    /\ confidenceInRange(picked.confidence, picked.matchDetails)
    /\ \A i \in 1..Len(picked.allCandidates) :
          confidenceInRange(picked.allCandidates[i].confidence,
                            Some(picked.allCandidates[i].details))

\* C6: every confidence lies in [0, 0.95] and is 0 when the hardMismatch flag
\* beside it is true: what computeConfidence returns (over a grid of
\* baseScores up to 1.5), what pickBestProperty reports for its best and for
\* each candidate, what validateCachedToken returns, what handleCompare holds
\* and stores in a TokenRecord, and what a success response reports.
C6_ConfidenceInRange ==
    /\ \A domainMatch \in BOOLEAN, baseScore \in ScoreGrid, hardMismatch \in BOOLEAN :
          confidenceInRange(computeConfidence(domainMatch, baseScore, hardMismatch),
                            Some([hardMismatch |-> hardMismatch]))
    /\ \A r \in Requests :
          /\ IsSome(req[r].picked) => pickedInRange(Get(req[r].picked))
          /\ IsSome(req[r].tokenValidation)
             => confidenceInRange(Get(req[r].tokenValidation).confidence,
                                  Get(req[r].tokenValidation).details)
          /\ IsSome(req[r].tokenObj) => recordInRange(Get(req[r].tokenObj))
          /\ succeeded(r)
             => confidenceInRange(Get(Get(req[r].response).match).confidence,
                                  Get(Get(req[r].response).match).matchDetails)
    /\ \A key \in DOMAIN kv : "confidence" \in DOMAIN kv[key] => recordInRange(kv[key])
    /\ \A w \in pending : "confidence" \in DOMAIN w.value => recordInRange(w.value)

\* A record whose name scores above 0.95 is held at confidence 0.95, and a
\* hard-mismatched one with a positive baseScore was validated to confidence 0
C6_CappedAndZeroed ==
    \E r \in Requests :
        /\ IsSome(req[r].tokenValidation)
        /\ IsSome(Get(req[r].tokenValidation).details)
        /\ Get(Get(req[r].tokenValidation).details).hardMismatch
        /\ Get(req[r].tokenValidation).baseScore > 0
        /\ Get(req[r].tokenValidation).confidence = 0
        /\ \E key \in DOMAIN kv :
              /\ "confidence" \in DOMAIN kv[key]
              /\ kv[key].nameScore > 95 * Pct
              /\ kv[key].confidence = 95 * Pct

\* Candidate i of a pickBestProperty call is on the official domain
candidateOnDomain(c, i) ==
    /\ c.officialDomain # ""
    /\ domainsEquivalent(getHostNoWww(c.properties[i].link), c.officialDomain)

\* The boost and the bonus of candidate entry e are gated: none unless on
\* the domain with core overlap, and with domain equality but no core
\* overlap finalScore is the effective baseScore and confidence is
\* min(0.95, baseScore)
entryGated(e, onDomain) ==
    /\ e.domainBoost > 0 => (onDomain /\ e.details.coreOverlapAny)
    /\ e.confidence > Min(95 * Pct, e.baseScore) => (onDomain /\ e.details.coreOverlapAny)
    /\ (onDomain /\ ~e.details.coreOverlapAny)
       => /\ e.finalScore = e.baseScore
          /\ e.confidence = Min(95 * Pct, e.baseScore)

pickGated(c) ==
    IsSome(c.result)
    => \A i \in 1..Len(c.properties) :
          ~Get(c.result).allCandidates[i].skipped
          => entryGated(Get(c.result).allCandidates[i], candidateOnDomain(c, i))

\* C7 as the spec states it: for every record validateCachedToken scores
\* with domain equality but coreOverlapAny = false, and every such candidate
\* of pickBestProperty, confidence equals min(0.95, baseScore).
C7_UngatedConfidenceIsBaseScore ==
    /\ call.op = "pickBestProperty" => pickGated(call)
    /\ (call.op = "validateCachedToken" /\ call.tokenObj.property_name # "")
       => /\ call.result.confidence > Min(95 * Pct, call.result.baseScore)
             => (recordOnDomain(call) /\ rescoreOf(call).coreOverlapAny)
          /\ (recordOnDomain(call) /\ ~rescoreOf(call).coreOverlapAny)
             => call.result.confidence = Min(95 * Pct, call.result.baseScore)

\* C7, amended: the domain boost and the +0.15 confidence bonus are granted
\* only on domain equivalence with coreOverlapAny; with domain equality but
\* coreOverlapAny = false, a candidate or record that is not a hard mismatch
\* has finalScore = effective baseScore and confidence = min(0.95, baseScore).
\* A hard-mismatched record has confidence 0 in validateCachedToken whatever
\* its baseScore, and a hard-mismatched candidate gets no score in
\* pickBestProperty.
C7_BoostGatedOnCoreOverlap ==
    /\ call.op = "pickBestProperty" => pickGated(call)
    /\ (call.op = "validateCachedToken" /\ call.tokenObj.property_name # "")
       => /\ call.result.confidence > Min(95 * Pct, call.result.baseScore)
             => (recordOnDomain(call) /\ rescoreOf(call).coreOverlapAny)
          /\ (recordOnDomain(call) /\ ~rescoreOf(call).coreOverlapAny)
             => call.result.confidence =
                   IF rescoreOf(call).hardMismatch THEN 0
                   ELSE Min(95 * Pct, call.result.baseScore)

\* A candidate on the official domain without core overlap whose baseScore
\* reaches the boost floor, left unboosted
C7_SisterHotelUnboosted ==
    /\ call.op = "pickBestProperty"
    /\ IsSome(call.result)
    /\ \E i \in 1..Len(call.properties) :
          /\ candidateOnDomain(call, i)
          /\ ~Get(call.result).allCandidates[i].skipped
          /\ ~Get(call.result).allCandidates[i].details.coreOverlapAny
          /\ Get(call.result).allCandidates[i].baseScore >= 55 * Pct
          /\ Get(call.result).allCandidates[i].finalScore
                = Get(call.result).allCandidates[i].baseScore

\* Property p scored against the main query is a hard mismatch
mainMismatch(hotelName, p) ==
    scoreOf(stripTrailingLocationSuffix(hotelName, p.city, p.country).stripped,
            p.name, p.city, p.country).hardMismatch

\* C8: a candidate whose score against the main query is a hard mismatch is
\* never the best of pickBestProperty, whatever its domain match and its
\* altQuery score; it is in allCandidates as skipped with a reason; and best
\* is null when every candidate is hard-mismatched.
C8_HardMismatchNeverBest ==
    (call.op = "pickBestProperty" /\ IsSome(call.result))
    => /\ IsSome(Get(call.result).best)
          => ~mainMismatch(call.hotelName, Get(Get(call.result).best))
       /\ Len(Get(call.result).allCandidates) = Len(call.properties)
       /\ \A i \in 1..Len(call.properties) :
             /\ Get(call.result).allCandidates[i].skipped
                   = mainMismatch(call.hotelName, call.properties[i])
             /\ Get(call.result).allCandidates[i].skipped
                => /\ Get(call.result).allCandidates[i].reason
                         \in {"brand_mismatch", "key_conflict", "hard_mismatch"}
                   /\ Get(call.result).allCandidates[i].name = call.properties[i].name
       /\ (\A i \in 1..Len(call.properties) :
              mainMismatch(call.hotelName, call.properties[i]))
          => Get(call.result).best = None

\* The only candidate is a hard mismatch of the main query, it is on the
\* official domain and altQuery scores it at 0.95 or more without a hard
\* mismatch, and best is null
C8_SkippedDespiteAltAndDomain ==
    /\ call.op = "pickBestProperty"
    /\ Len(call.properties) = 1
    /\ call.altQuery # ""
    /\ candidateOnDomain(call, 1)
    /\ mainMismatch(call.hotelName, call.properties[1])
    /\ ~scoreOf(call.altQuery, call.properties[1].name, call.properties[1].city,
                call.properties[1].country).hardMismatch
    /\ scoreOf(call.altQuery, call.properties[1].name, call.properties[1].city,
               call.properties[1].country).baseScore >= 95 * Pct
    /\ Get(call.result).best = None
    /\ Get(call.result).allCandidates[1].skipped

\* The scores of candidate p against the main query and against altQuery
mainScoreOf(hotelName, p) ==
    scoreOf(stripTrailingLocationSuffix(hotelName, p.city, p.country).stripped,
            p.name, p.city, p.country)

altScoreOf(altQuery, p) == scoreOf(altQuery, p.name, p.city, p.country)

\* altQuery scores p strictly higher than base, without a hard mismatch
altRaises(altQuery, p, base) ==
    /\ altQuery # ""
    /\ ~altScoreOf(altQuery, p).hardMismatch
    /\ altScoreOf(altQuery, p).baseScore > base

\* C9: for every candidate pickBestProperty does not skip, the effective
\* baseScore is the altQuery score when that is strictly higher than the main
\* baseScore and not itself a hard mismatch, and the main baseScore
\* otherwise; so it is never below the main baseScore.
C9_AltQueryOnlyRaises ==
    (call.op = "pickBestProperty" /\ IsSome(call.result))
    => \A i \in 1..Len(call.properties) :
          ~Get(call.result).allCandidates[i].skipped
          => /\ Get(call.result).allCandidates[i].mainBaseScore
                   = mainScoreOf(call.hotelName, call.properties[i]).baseScore
             /\ Get(call.result).allCandidates[i].baseScore
                   >= Get(call.result).allCandidates[i].mainBaseScore
             /\ Get(call.result).allCandidates[i].baseScore
                   = IF altRaises(call.altQuery, call.properties[i],
                                  mainScoreOf(call.hotelName, call.properties[i]).baseScore)
                     THEN altScoreOf(call.altQuery, call.properties[i]).baseScore
                     ELSE mainScoreOf(call.hotelName, call.properties[i]).baseScore
             /\ Get(call.result).allCandidates[i].altUsed
                   = altRaises(call.altQuery, call.properties[i],
                               mainScoreOf(call.hotelName, call.properties[i]).baseScore)

\* One call where altQuery raises a candidate, and scores another higher
\* than the main query only with a hard mismatch, which keeps its main score
C9_AltUsedAndAltRefused ==
    /\ call.op = "pickBestProperty"
    /\ IsSome(call.result)
    /\ \E i \in 1..Len(call.properties) :
          /\ Get(call.result).allCandidates[i].altUsed
          /\ Get(call.result).allCandidates[i].baseScore
                > Get(call.result).allCandidates[i].mainBaseScore
    /\ \E i \in 1..Len(call.properties) :
          /\ ~Get(call.result).allCandidates[i].skipped
          /\ altScoreOf(call.altQuery, call.properties[i]).hardMismatch
          /\ altScoreOf(call.altQuery, call.properties[i]).baseScore
                > Get(call.result).allCandidates[i].mainBaseScore
          /\ Get(call.result).allCandidates[i].baseScore
                = Get(call.result).allCandidates[i].mainBaseScore

\* The candidates of a pickBestProperty result that were not skipped
considered(picked) ==
    {i \in 1..Len(picked.allCandidates) : ~picked.allCandidates[i].skipped}

\* The first candidate, in input order, of maximal finalScore among them
firstMaximal(picked) ==
    CHOOSE i \in considered(picked) :
        /\ \A j \in considered(picked) :
              picked.allCandidates[j].finalScore <= picked.allCandidates[i].finalScore
        /\ \A j \in considered(picked) :
              picked.allCandidates[j].finalScore = picked.allCandidates[i].finalScore
              => i <= j

\* finalScore is the effective baseScore plus the gated domain boost
finalScoreBySpec(e, onDomain) ==
    e.baseScore
    + (IF onDomain /\ e.details.coreOverlapAny /\ e.baseScore >= 55 * Pct
       THEN Min(70 * Pct, (9 * e.baseScore) \div 10) ELSE 0)

\* C10: the best of pickBestProperty is the first candidate, in input order,
\* among those not hard-mismatched whose finalScore (effective baseScore plus
\* gated domain boost) is maximal, and the result reports that candidate's
\* score and confidence; confidence is not a ranking key.
C10_BestIsFirstOfMaximalFinalScore ==
    (call.op = "pickBestProperty" /\ IsSome(call.result))
    => /\ \A i \in considered(Get(call.result)) :
             Get(call.result).allCandidates[i].finalScore
                = finalScoreBySpec(Get(call.result).allCandidates[i],
                                   candidateOnDomain(call, i))
       /\ IF considered(Get(call.result)) = {}
          THEN Get(call.result).best = None
          ELSE /\ Get(call.result).best
                     = Some(call.properties[firstMaximal(Get(call.result))])
               /\ Get(call.result).bestScore
                     = Get(call.result).allCandidates[firstMaximal(Get(call.result))]
                          .finalScore
               /\ Get(call.result).confidence
                     = Get(call.result).allCandidates[firstMaximal(Get(call.result))]
                          .confidence

\* The best has a lower confidence than a candidate it outranks
C10_WinnerWithLowerConfidence ==
    /\ call.op = "pickBestProperty"
    /\ IsSome(call.result)
    /\ IsSome(Get(call.result).best)
    /\ \E j \in considered(Get(call.result)) :
          /\ Get(call.result).allCandidates[j].confidence > Get(call.result).confidence
          /\ Get(call.result).allCandidates[j].finalScore < Get(call.result).bestScore

\* The invocation r read a ctx with properties and picked from them
pickedFromCtx(r) ==
    /\ Len(req[r].trace) > 0
    /\ req[r].trace[1].tier = "ctx"
    /\ IsSome(req[r].ctxDebug.ctxConfidence)

\* The keys of the token-cache writes r dispatched in step `by`
dispatchedKeys(r, by) == {d.key : d \in {e \in req[r].dispatched : e.by = by}}

\* C11: the ctx tier accepts its pick exactly when the pick has a
\* property_token, its confidence is at least 0.55 and it is no hard
\* mismatch; the name-key write, and the domain-key write when the official
\* domain is known, are dispatched exactly when the pick is accepted with
\* confidence at least 0.75; an accepted pick of confidence in [0.55, 0.75)
\* dispatches no token-cache write; a tier that picked nothing dispatches none.
C11_CtxAcceptAndBackfill ==
    \A r \in Requests :
        /\ pickedFromCtx(r)
           => /\ req[r].trace[1].accepted
                 <=> /\ req[r].trace[1].found # ""
                     /\ Get(req[r].ctxDebug.ctxConfidence) >= 55 * Pct
                     /\ ~(/\ IsSome(req[r].ctxDebug.ctxMatchDetails)
                          /\ Get(req[r].ctxDebug.ctxMatchDetails).hardMismatch)
              /\ req[r].trace[1].accepted = req[r].ctxDebug.ctxHit
              /\ req[r].tokenKeyName \in dispatchedKeys(r, "ctx")
                 <=> /\ req[r].trace[1].accepted
                     /\ Get(req[r].ctxDebug.ctxConfidence) >= 75 * Pct
              /\ req[r].tokenKeyDomain \in dispatchedKeys(r, "ctx")
                 <=> /\ req[r].trace[1].accepted
                     /\ Get(req[r].ctxDebug.ctxConfidence) >= 75 * Pct
                     /\ req[r].tokenKeyDomain # ""
              /\ (/\ req[r].trace[1].accepted
                  /\ Get(req[r].ctxDebug.ctxConfidence) < 75 * Pct)
                 => dispatchedKeys(r, "ctx") = {}
        /\ ~pickedFromCtx(r) => dispatchedKeys(r, "ctx") = {}

\* A ctx pick accepted with a confidence in [0.55, 0.75): in use, not backfilled
C11_AcceptedWithoutBackfill ==
    \E r \in Requests :
        /\ pickedFromCtx(r)
        /\ req[r].trace[1].accepted
        /\ req[r].tokenCacheDetail = "ctx-hit"
        /\ Get(req[r].ctxDebug.ctxConfidence) >= 55 * Pct
        /\ Get(req[r].ctxDebug.ctxConfidence) < 75 * Pct
        /\ req[r].dispatched = {}
        /\ req[r].pc = "done"

\* The live search of r resolved the miss: the picker returned a best
\* candidate with a property_token
resolvedBySearch(r) ==
    \E i \in 1..Len(req[r].trace) :
        req[r].trace[i].tier = "search" /\ req[r].trace[i].accepted

\* C12 as the spec states it: whenever the live search resolves a miss, a
\* write of the new TokenRecord to the name key is dispatched.
C12_NameWriteOnEverySuccess ==
    \A r \in Requests :
        resolvedBySearch(r) => req[r].tokenKeyName \in dispatchedKeys(r, "search")

\* C12, amended: when the live search resolves a miss, the name-key write is
\* dispatched exactly when the confidence is at least 0.65 (with the long TTL
\* from 0.80 on), the domain-key write exactly when the domain key is known
\* and the confidence is at least 0.75, the booking-slug write exactly when
\* the slug key is known and the confidence is at least 0.70; below 0.65
\* nothing is written.  A search that resolves nothing writes nothing.
C12_SearchWritesByConfidence ==
    \A r \in Requests :
        /\ resolvedBySearch(r)
           => /\ req[r].tokenKeyName \in dispatchedKeys(r, "search")
                 <=> Get(req[r].tokenObj).confidence >= 65 * Pct
              /\ req[r].tokenKeyDomain \in dispatchedKeys(r, "search")
                 <=> /\ req[r].tokenKeyDomain # ""
                     /\ Get(req[r].tokenObj).confidence >= 75 * Pct
              /\ req[r].tokenKeyBooking \in dispatchedKeys(r, "search")
                 <=> /\ req[r].tokenKeyBooking # ""
                     /\ Get(req[r].tokenObj).confidence >= 70 * Pct
              /\ \A d \in req[r].dispatched :
                    (d.by = "search" /\ d.key = req[r].tokenKeyName)
                    => d.ttl = IF Get(req[r].tokenObj).confidence >= 80 * Pct
                               THEN "TOKEN_TTL_SEC" ELSE "TOKEN_TTL_NO_DOMAIN_SEC"
        /\ ~resolvedBySearch(r) => dispatchedKeys(r, "search") = {}

\* A miss resolved by the live search at a confidence below 0.65: the token
\* is used for the response and nothing is written to the token cache
C12_ResolvedButNotCached ==
    \E r \in Requests :
        /\ resolvedBySearch(r)
        /\ succeeded(r)
        /\ Get(req[r].tokenObj).confidence < 65 * Pct
        /\ dispatchedKeys(r, "search") = {}

\* ------------------------------------------------------------------------
\* A request and its repetitions.  Invocation 1 is any /compare request on
\* any of the initial caches; once it did a verify lookup whose backfill
\* write reached the store, the same request is sent again.
\* ------------------------------------------------------------------------
MaxRepeats == 1

Repeated == 1..(1 + MaxRepeats)

\* r handed a verify backfill write to ctx.waitUntil
backfilledByVerify(r) == \E d \in req[r].dispatched : d.by = "verify"

\* params are the parameters of the invocation with the locals q
sameParams(params, q) ==
    /\ params.hotelName = q.hotelName
    /\ getHostNoWww(params.officialUrl) = q.officialDomain
    /\ params.bookingSlug = q.bookingSlug
    /\ ctxKeyOf(params.ctxParam) = q.ctxKey
    /\ params.refresh = q.refresh

CompareRepeat(r) ==
    /\ r > 1
    /\ req[r - 1].pc = "done"
    /\ backfilledByVerify(1)
    /\ pending = {}
    /\ CompareStartOf(r, {params \in RequestInputs : sameParams(params, req[1])})

InitRepeat ==
    /\ kv \in InitialCaches
    /\ pending = {}
    /\ req = [r \in Repeated |-> NoRequest]
    /\ prefetchCount = 0
    /\ call = NoCall

NextRepeat ==
    \/ CompareStart(1)
    \/ \E r \in Repeated : CompareRepeat(r)
    \/ \E r \in Repeated : CompareReadCtx(r)
    \/ \E r \in Repeated : CompareReadDomain(r)
    \/ \E r \in Repeated : CompareReadBooking(r)
    \/ \E r \in Repeated : CompareReadName(r)
    \/ \E r \in Repeated : CompareSearch(r)
    \/ \E r \in Repeated : CompareVerify(r)
    \/ \E r \in Repeated : CompareReadOffers(r)
    \/ \E r \in Repeated : CompareFetchOffers(r)
    \/ ApplyWrite
    \/ HandlePrefetchCtx

SpecRepeat == InitRepeat /\ [][NextRepeat]_vars

\* The google_hotels calls of r by kind
callsOf(r, tier) == {i \in 1..Len(req[r].trace) : req[r].trace[i].tier = tier}

\* r resolved its token and went on to the offers
resolved(r) == req[r].pc \in {"offers", "done"} /\ hasToken(req[r].tokenObj)

\* C13: an invocation makes at most one verify lookup and never both a live
\* search and a verify lookup; it is about to make one only when its token
\* came from a cache tier (hit-* or ctx-hit), the confidence is below 0.65,
\* and neither the cached record, the ctx pick nor a live search gave a
\* candidate summary; and once a verify backfill write has reached the
\* store, the same request sent again and served from the same tier with the
\* same token makes no verify lookup.
C13_OneVerifyThenNone ==
    /\ \A r \in Repeated :
          /\ Cardinality(callsOf(r, "verify")) <= 1
          /\ Cardinality(callsOf(r, "verify") \cup callsOf(r, "search")) <= 1
          /\ req[r].usage.google_hotels
                = Cardinality(callsOf(r, "verify") \cup callsOf(r, "search"))
          /\ req[r].pc = "verify"
             => /\ hasToken(req[r].tokenObj)
                /\ startsWithHit(req[r].tokenCacheDetail)
                      \/ req[r].tokenCacheDetail = "ctx-hit"
                /\ Get(req[r].tokenObj).confidence < 65 * Pct
                /\ ~IsSome(Get(req[r].tokenObj).candidateSummary)
                /\ ~IsSome(req[r].ctxDebug.ctxCandidateSummary)
                /\ ~IsSome(req[r].searchCandidateSummary)
                /\ callsOf(r, "verify") = {}
    /\ \A r \in Repeated \ {1} :
          (/\ backfilledByVerify(r - 1)
           /\ resolved(r)
           /\ req[r].tokenCacheDetail = req[r - 1].tokenCacheDetail
           /\ Get(req[r].tokenObj).property_token
                 = Get(req[r - 1].tokenObj).property_token)
          => /\ callsOf(r, "verify") = {}
             /\ IsSome(Get(req[r].tokenObj).candidateSummary)

\* The repeated request answered from the record the first one backfilled,
\* still uncertain, without a second verify lookup
C13_RepeatServedWithoutVerify ==
    /\ backfilledByVerify(1)
    /\ req[2].pc = "done"
    /\ succeeded(2)
    /\ req[2].tokenCacheDetail = req[1].tokenCacheDetail
    /\ Get(req[2].tokenObj).confidence < 65 * Pct
    /\ req[2].usage.google_hotels = 0
    /\ req[1].usage.google_hotels = 1

\* The live search of r failed: no response, a non-ok status or data.error
searchFailed(r) == IsSome(req[r].firstCall) /\ ~Get(req[r].firstCall).ok

\* The error_code of r's response, "" while there is none
errorCodeOf(r) == IF IsSome(req[r].response) THEN Get(req[r].response).error_code ELSE ""

\* C14: when the google_hotels call of the resolution fails, the invocation
\* ends at once with status 502 and error_code SEARCH_FAILED, never with
\* NO_PROPERTY_FOUND; it writes nothing to the token cache and makes no
\* property-offers call.
C14_FailedSearchIs502 ==
    \A r \in Requests :
        searchFailed(r)
        => /\ req[r].pc = "done"
           /\ IsSome(req[r].response)
           /\ Get(req[r].response).status = 502
           /\ errorCodeOf(r) = "SEARCH_FAILED"
           /\ ~Get(req[r].response).ok
           /\ dispatchedKeys(r, "search") = {}
           /\ req[r].usage.google_hotels_property = 0

\* A request whose cached record was rejected and whose live search then
\* failed
C14_RejectedThenSearchFailed ==
    \E r \in Requests :
        /\ searchFailed(r)
        /\ \E j \in 1..Len(req[r].trace) :
              req[r].trace[j].found # "" /\ ~req[r].trace[j].accepted
        /\ errorCodeOf(r) = "SEARCH_FAILED"

\* C15 as the spec states it: a failed google_hotels call is taken for "no
\* candidates" and the caller receives NO_PROPERTY_FOUND.
C15_FailedSearchIsNoPropertyFound ==
    \A r \in Requests :
        (searchFailed(r) /\ req[r].pc = "done") => errorCodeOf(r) = "NO_PROPERTY_FOUND"

\* C15, amended: NO_PROPERTY_FOUND (status 404) is answered only when the
\* google_hotels call succeeded and the picker had no best candidate with a
\* property_token; the response of an invocation whose call failed carries
\* another error code.
C15_NoPropertyFoundOnlyAfterOkSearch ==
    \A r \in Requests :
        errorCodeOf(r) = "NO_PROPERTY_FOUND"
        => /\ IsSome(req[r].firstCall)
           /\ Get(req[r].firstCall).ok
           /\ bestTokenOf(req[r].picked) = ""
           /\ Get(req[r].response).status = 404

\* A total miss (no cached record found at any tier) whose google_hotels call
\* failed and was answered with 502 rather than 404 NO_PROPERTY_FOUND
C15_FailedSearchAnsweredOtherwise ==
    \E r \in Requests :
        /\ searchFailed(r)
        /\ req[r].pc = "done"
        /\ \A j \in 1..Len(req[r].trace) : req[r].trace[j].found = ""
        /\ errorCodeOf(r) # "NO_PROPERTY_FOUND"
        /\ Get(req[r].response).status # 404

\* The google_hotels call of r succeeded and gave the picker nothing to
\* select: no property at all, or only hard mismatches of the hotel name
nothingToSelect(r) ==
    /\ IsSome(req[r].firstCall)
    /\ Get(req[r].firstCall).ok
    /\ \A i \in 1..Len(Get(req[r].firstCall).properties) :
          mainMismatch(req[r].hotelName, Get(req[r].firstCall).properties[i])

\* The google_hotels call of r succeeded and the picker selected no candidate
\* with a property_token
nothingSelected(r) ==
    /\ IsSome(req[r].firstCall)
    /\ Get(req[r].firstCall).ok
    /\ bestTokenOf(req[r].picked) = ""
    /\ ~(\E i \in 1..Len(req[r].trace) :
            req[r].trace[i].tier = "search" /\ req[r].trace[i].accepted)

\* C16: when the google_hotels call succeeds and the picker selects no
\* candidate with a property_token, as it does for an empty list and for a
\* list of hard mismatches, handleCompare answers 404 NO_PROPERTY_FOUND,
\* writes nothing to the token cache and makes no property-offers call.
C16_NothingSelectedIs404 ==
    \A r \in Requests :
        /\ nothingToSelect(r) => nothingSelected(r)
        /\ nothingSelected(r)
           => /\ req[r].pc = "done"
              /\ IsSome(req[r].response)
              /\ Get(req[r].response).status = 404
              /\ errorCodeOf(r) = "NO_PROPERTY_FOUND"
              /\ req[r].tokenObj = None
              /\ dispatchedKeys(r, "search") = {}
              /\ req[r].usage.google_hotels_property = 0

\* Every candidate of a non-empty answer carries a property_token and is a
\* hard mismatch: nothing is selected
C16_OnlyHardMismatches ==
    \E r \in Requests :
        /\ nothingToSelect(r)
        /\ Get(req[r].firstCall).properties # <<>>
        /\ \A i \in 1..Len(Get(req[r].firstCall).properties) :
              Get(req[r].firstCall).properties[i].property_token # ""
        /\ errorCodeOf(r) = "NO_PROPERTY_FOUND"

\* The cache tiers r has to consult: none on refresh, else those whose key it
\* has, the name key always
tiersOf(r) ==
    IF req[r].refresh THEN {}
    ELSE {"name"}
         \cup (IF req[r].ctxKey # "" THEN {"ctx"} ELSE {})
         \cup (IF req[r].tokenKeyDomain # "" THEN {"domain"} ELSE {})
         \cup (IF req[r].tokenKeyBooking # "" THEN {"booking"} ELSE {})

\* r is still resolving its token
resolving(r) == req[r].pc \in {"ctx", "domain", "booking", "name", "search"}

\* C17: while an invocation resolves its token it has no response, whatever
\* the tiers rejected; an error response comes only from the live search or
\* the property-offers lookup; and SEARCH_FAILED or NO_PROPERTY_FOUND is
\* answered only when every cache tier of the request was consulted and
\* accepted nothing and the live search was then made, as the last step.
C17_ErrorsOnlyAfterAllTiers ==
    \A r \in Requests :
        /\ resolving(r) => req[r].response = None
        /\ (IsSome(req[r].response) /\ ~succeeded(r))
           => \/ callsOf(r, "search") # {}
              \/ req[r].usage.google_hotels_property > 0
        /\ errorCodeOf(r) \in {"SEARCH_FAILED", "NO_PROPERTY_FOUND"}
           => /\ callsOf(r, "search") = {Len(req[r].trace)}
              /\ \A i \in 1..Len(req[r].trace) : ~req[r].trace[i].accepted
              /\ {req[r].trace[i].tier : i \in 1..(Len(req[r].trace) - 1)} = tiersOf(r)
              /\ req[r].tokenObj = None

\* A request with a domain key: the record cached under it was found and
\* rejected, the name key was read, and only then the live search answered
\* NO_PROPERTY_FOUND
C17_RejectedThenNoPropertyFound ==
    \E r \in Requests :
        /\ errorCodeOf(r) = "NO_PROPERTY_FOUND"
        /\ {"domain", "name"} \subseteq tiersOf(r)
        /\ \E i \in 1..Len(req[r].trace) :
              req[r].trace[i].found # "" /\ ~req[r].trace[i].accepted

\* ------------------------------------------------------------------------
\* Concurrent invocations of one /compare request.  Every invocation gets
\* the parameters of the first one, and the google_hotels call of the
\* resolution answers each of them the same; call keeps the store the
\* invocations started from.  No prefetch runs meanwhile: the ctx keys stay
\* as they are.
\* ------------------------------------------------------------------------
MaxConcurrent == 2

Concurrent == 1..MaxConcurrent

started(r) == req[r].pc # "idle"

ConcurrentStart(r) ==
    CompareStartOf(r, IF \E s \in Concurrent : started(s)
                      THEN {params \in RequestInputs :
                               \A s \in Concurrent : started(s) => sameParams(params, req[s])}
                      ELSE RequestInputs)

\* Invocations whose google_hotels calls are answered independently
ConcurrentSearchUnrelated(r) == CompareSearchOf(r, SearchOutcomes)

ConcurrentSearch(r) ==
    CompareSearchOf(r, IF \E s \in Concurrent : IsSome(req[s].firstCall)
                       THEN {Get(req[s].firstCall) :
                                s \in {t \in Concurrent : IsSome(req[t].firstCall)}}
                       ELSE SearchOutcomes)

InitConcurrent ==
    /\ kv \in InitialCaches
    /\ pending = {}
    /\ req = [r \in Concurrent |-> NoRequest]
    /\ prefetchCount = 0
    /\ call = [op |-> "store", kv |-> kv]

NextConcurrent ==
    \/ \E r \in Concurrent : ConcurrentStart(r)
    \/ \E r \in Concurrent : CompareReadCtx(r)
    \/ \E r \in Concurrent : CompareReadDomain(r)
    \/ \E r \in Concurrent : CompareReadBooking(r)
    \/ \E r \in Concurrent : CompareReadName(r)
    \/ \E r \in Concurrent : ConcurrentSearch(r)
    \/ \E r \in Concurrent : CompareVerify(r)
    \/ \E r \in Concurrent : CompareReadOffers(r)
    \/ \E r \in Concurrent : CompareFetchOffers(r)
    \/ ApplyWrite

SpecConcurrent == InitConcurrent /\ [][NextConcurrent]_vars

\* The token-cache part of a store
tokenPart(store) ==
    [k \in {j \in DOMAIN store : Len(j) >= 4 /\ SubSeq(j, 1, 4) = "tok:"} |-> store[k]]

\* The token-cache writes of one invocation that resolved by the live
\* search as r did
writesOfOne(r) ==
    IF resolvedBySearch(r)
    THEN searchWrites(req[r], Get(req[r].tokenObj), Get(req[r].tokenObj).confidence)
    ELSE {}

matchOfResponse(r) == Get(Get(req[r].response).match)

\* C19: a success response reports matchUncertain exactly when the resolved
\* TokenRecord's confidence is below 0.65, and its match object carries a
\* candidate summary, under candidateSummary or among the ctxDebug fields
\* spread into it, only when matchUncertain is true.
C19_SummaryOnlyWhenUncertain ==
    \A r \in Requests :
        (succeeded(r) /\ req[r].handler = "compare")
        => /\ Get(req[r].response).matchUncertain
                 <=> Get(req[r].tokenObj).confidence < 65 * Pct
           /\ ~Get(req[r].response).matchUncertain
              => /\ matchOfResponse(r).candidateSummary = None
                 /\ matchOfResponse(r).candidateSummarySource = ""
                 /\ matchOfResponse(r).ctxDebug.ctxCandidateSummary = None

\* The property_tokens of the candidates given to the picker
tokensOf(properties) ==
    {properties[i].property_token : i \in 1..Len(properties)} \ {""}

\* C20: a summary of summarizeCandidates(allCandidates, 3) lists at most 3
\* topCandidates, the first ones of the candidates the picker did not skip;
\* each entry has the fields name, confidence, finalScore, baseScore and
\* domainMatch and no other; beside them the summary holds only counts (the
\* skipped candidates by reason, the total); no property_token of a
\* candidate is in it.
C20_SummaryIsRedacted ==
    (call.op = "pickBestProperty" /\ IsSome(call.summary))
    => LET summary == Get(call.summary)
           allCandidates == Get(call.result).allCandidates
       IN /\ DOMAIN summary = {"topCandidates", "skippedCounts", "total", "fromVerify"}
          /\ Len(summary.topCandidates) <= 3
          /\ Len(summary.topCandidates)
                = Min(3, Cardinality({i \in DOMAIN allCandidates :
                                         ~allCandidates[i].skipped}))
          /\ \A i \in 1..Len(summary.topCandidates) :
                /\ DOMAIN summary.topCandidates[i]
                      = {"name", "confidence", "finalScore", "baseScore", "domainMatch"}
                /\ summary.topCandidates[i].name \notin tokensOf(call.properties)
                /\ summary.topCandidates[i].name
                      \in {call.properties[j].name : j \in 1..Len(call.properties)}
                /\ summary.topCandidates[i].domainMatch \in BOOLEAN
                /\ summary.topCandidates[i].confidence \in Int
                /\ summary.topCandidates[i].finalScore \in Int
                /\ summary.topCandidates[i].baseScore \in Int
          /\ summary.total = Len(call.properties)
          /\ \A reason \in DOMAIN summary.skippedCounts :
                /\ reason \in {"brand_mismatch", "key_conflict", "hard_mismatch"}
                /\ summary.skippedCounts[reason] \in 1..summary.total

\* More than 3 candidates with a property_token were considered and the
\* summary lists 3
C20_ThreeOfMore ==
    /\ call.op = "pickBestProperty"
    /\ IsSome(call.summary)
    /\ Len(Get(call.summary).topCandidates) = 3
    /\ Cardinality({i \in DOMAIN Get(call.result).allCandidates :
                       ~Get(call.result).allCandidates[i].skipped}) > 3
    /\ Cardinality(tokensOf(call.properties)) > 3

\* The keys of the context records
ctxKeys(keys) == {k \in keys : Len(k) >= 4 /\ SubSeq(k, 1, 4) = "ctx:"}

\* Every candidate of the record has a property_token
allWithToken(ctxData) ==
    \A i \in 1..Len(ctxData.properties) : ctxData.properties[i].property_token # ""

\* The ctx step of r, taken on a stored record without candidates: no pick is
\* made, nothing is accepted or written, the next tier is the one an absent
\* record leads to
emptyCtxStep(r) ==
    (/\ req[r].pc = "ctx"
     /\ req'[r].pc # "ctx"
     /\ req[r].ctxKey \in DOMAIN kv
     /\ kv[req[r].ctxKey].properties = <<>>)
    => /\ req'[r].ctxDebug.ctxRejectedReason = "ctx_empty"
       /\ req'[r].ctxDebug.ctxConfidence = None
       /\ req'[r].ctxDebug.ctxCandidateSummary = None
       /\ ~req'[r].ctxDebug.ctxHit
       /\ req'[r].picked = None
       /\ req'[r].tokenObj = None
       /\ req'[r].tokenCacheDetail = "miss"
       /\ req'[r].dispatched = {}
       /\ req'[r].pc = afterCtx(req[r])
       /\ req'[r].pc \in {"domain", "booking", "name"}

\* C21: every candidate of every context record, stored or on its way to the
\* store, has a property_token; handleCompare dispatches no write to a ctx:
\* key; and its ctx step on a record with an empty candidate list runs no
\* pick and goes on with the next tier.
C21_ContextRecords ==
    /\ [](/\ \A k \in ctxKeys(DOMAIN kv) : allWithToken(kv[k])
          /\ \A w \in pending : w.key \in ctxKeys({w.key}) => allWithToken(w.value)
          /\ \A r \in Requests : ctxKeys({d.key : d \in req[r].dispatched}) = {})
    /\ [][\A r \in Requests : emptyCtxStep(r)]_vars

\* The prefetch answer held only a property without token, the stored record
\* is empty, and the request read it and went on to the name key
C21_EmptyContextPassed ==
    \E r \in Requests :
        /\ req[r].ctxDebug.ctxRejectedReason = "ctx_empty"
        /\ req[r].ctxKey \in DOMAIN kv
        /\ kv[req[r].ctxKey].properties = <<>>
        /\ Len(req[r].trace) >= 2
        /\ req[r].trace[1].tier = "ctx"

\* ------------------------------------------------------------------------
\* The detached writes may fail: ctx.waitUntil(kvPutJson(...)) is not
\* awaited, and a kv.put that rejects leaves the store as it was.
\* ------------------------------------------------------------------------
FailWrite ==
    /\ \E w \in pending : pending' = pending \ {w}
    /\ UNCHANGED <<kv, req, prefetchCount, call>>

NextWrites ==
    \/ Next
    \/ FailWrite

SpecWrites == Init /\ [][NextWrites]_vars

\* The key the next step of r reads from the store, "" if it reads none
keyRead(r) ==
    IF req[r].pc = "ctx" THEN req[r].ctxKey
    ELSE IF req[r].pc = "domain" THEN req[r].tokenKeyDomain
    ELSE IF req[r].pc = "booking" THEN req[r].tokenKeyBooking
    ELSE IF req[r].pc = "name" THEN req[r].tokenKeyName
    ELSE IF req[r].pc = "offers" /\ ~req[r].refresh
    THEN offersKeyOf(Get(req[r].tokenObj).property_token)
    ELSE ""

\* C22: the writes a /compare request dispatches are not awaited and cannot
\* reach its response: whether they are applied, fail or stay pending, the
\* request never reads a key after it dispatched a write to it, so nothing
\* it reads depends on the outcome of its own writes; and the response, once
\* given, is not changed by what becomes of the writes.
C22_WritesDoNotReachTheResponse ==
    /\ [](\A r \in Requests :
             keyRead(r) # "" => keyRead(r) \notin {d.key : d \in req[r].dispatched})
    /\ [][\A r \in Requests : req[r].pc = "done" => req'[r] = req[r]]_vars

\* A request answered 200 all of whose writes, to token keys and to the
\* offers key, failed: none of them is in the store and none is pending
C22_AnsweredThoughWritesFailed ==
    \E r \in Requests :
        /\ succeeded(r)
        /\ Cardinality({d.key : d \in req[r].dispatched}) >= 3
        /\ \A d \in req[r].dispatched : d.key \notin DOMAIN kv
        /\ pending = {}

\* ------------------------------------------------------------------------
\* scoreNameMatchDetailed applied to pairs of names that carry brands, key
\* groups and accommodation types (opts left out: no city, no country)
\* ------------------------------------------------------------------------
MatchNames ==
    {"Alda Hotel", "Alda Hotel Downtown", "Alda Hotel City Centre",
     "Alda Hotel Airport", "Alda Hotel Central", "Alda Station",
     "Alda Beach Airport Lodge", "Hilton Alda Hotel", "Marriott Alda Hotel",
     "Hilton Marriott Resort", "Green Room", "Green Room Apartments",
     "Green Room Hostel", "Green Room Hotel", "Alda Hostel Hotel Airport"}

ApplyScore ==
    /\ call.op = "none"
    /\ \E query \in MatchNames, candidate \in MatchNames :
          call' = [op |-> "scoreNameMatchDetailed", query |-> query,
                   candidate |-> candidate,
                   result |-> scoreNameMatchDetailed(query, candidate, "", "")]
    /\ UNCHANGED <<kv, pending, req, prefetchCount>>

NextScore ==
    \/ ApplyScore
    \/ Return

SpecScore == InitFn /\ [][NextScore]_vars

scored(query, candidate) ==
    /\ call.op = "scoreNameMatchDetailed"
    /\ call.query = query
    /\ call.candidate = candidate

\* C23: keyConflict is true exactly when both sides have at least one strong
\* key group and no strong group in common; a side with weak signals only or
\* with none never conflicts: "Downtown" against "City Centre" (same group)
\* does not conflict, "Airport" against "Downtown" does.
C23_KeyConflictIffDisjointStrong ==
    call.op = "scoreNameMatchDetailed" =>
        /\ call.result.keyConflict
             <=> /\ call.result.qKeyStrong # {}
                 /\ call.result.cKeyStrong # {}
                 /\ call.result.qKeyStrong \cap call.result.cKeyStrong = {}
        /\ scored("Alda Hotel Downtown", "Alda Hotel City Centre")
             => /\ call.result.qKeyStrong = {"center"}
                /\ call.result.cKeyStrong = {"center"}
                /\ ~call.result.keyConflict
        /\ scored("Alda Hotel Airport", "Alda Hotel Downtown")
             => /\ call.result.qKeyStrong = {"airport"}
                /\ call.result.keyConflict
        /\ call.query \in {"Alda Hotel Central", "Alda Station", "Alda Hotel"}
             => call.result.qKeyStrong = {} /\ ~call.result.keyConflict
        /\ call.candidate \in {"Alda Hotel Central", "Alda Station", "Alda Hotel"}
             => call.result.cKeyStrong = {} /\ ~call.result.keyConflict

\* A weak-only query against a strong candidate of another group, without
\* conflict
C23_WeakAgainstStrong ==
    /\ scored("Alda Hotel Central", "Alda Hotel Airport")
    /\ call.result.qKeyWeak = {"center"}
    /\ call.result.cKeyStrong = {"airport"}
    /\ ~call.result.keyConflict

\* C24: brandMismatch is true exactly when the query's brand set is non-empty
\* and disjoint from the candidate's; a query without a brand never
\* mismatches on brand; hardMismatch is brandMismatch or keyConflict,
\* whatever the score and the accommodation types.
C24_BrandMismatchAndHardMismatch ==
    call.op = "scoreNameMatchDetailed" =>
        /\ call.result.brandMismatch
             <=> /\ call.result.qBrands # {}
                 /\ call.result.qBrands \cap call.result.cBrands = {}
        /\ call.result.qBrands = {} => ~call.result.brandMismatch
        /\ call.result.hardMismatch
             <=> (call.result.brandMismatch \/ call.result.keyConflict)
        /\ scored("Hilton Alda Hotel", "Alda Hotel")
             => call.result.qBrands = {"hilton"} /\ call.result.brandMismatch
        /\ scored("Alda Hotel", "Hilton Alda Hotel")
             => call.result.cBrands = {"hilton"} /\ ~call.result.hardMismatch
        /\ scored("Hilton Marriott Resort", "Hilton Alda Hotel")
             => ~call.result.brandMismatch

\* A branded query against the unbranded hotel of the same name: a hard
\* mismatch at a base score of 0.80 with matching types
C24_HardMismatchAtHighScore ==
    /\ scored("Hilton Alda Hotel", "Alda Hotel")
    /\ call.result.brandMismatch
    /\ ~call.result.keyConflict
    /\ call.result.hardMismatch
    /\ call.result.typeBoost = TYPE_MATCH_BOOST
    /\ call.result.baseScore = 80 * Pct

\* The type groups whose strength is "strong"
StrongTypeGroups == {"apartment", "hostel", "guesthouse"}

\* C25: typePenalty is 0 when either side has no type group or the sides
\* share a group; otherwise 0.18 if both sides have a strong non-hotel group,
\* 0.10 if exactly one has, 0 if none has; typeBoost (0.05) and typePenalty
\* are never both non-zero.
C25_TypePenalty ==
    call.op = "scoreNameMatchDetailed" =>
        LET qGroups == call.result.qTypeGroups
            cGroups == call.result.cTypeGroups
            qStrong == qGroups \cap StrongTypeGroups # {}
            cStrong == cGroups \cap StrongTypeGroups # {}
        IN /\ call.result.typePenalty =
                 IF qGroups = {} \/ cGroups = {} \/ qGroups \cap cGroups # {} THEN 0
                 ELSE IF qStrong /\ cStrong THEN 18 * Pct
                 ELSE IF qStrong # cStrong THEN 10 * Pct
                 ELSE 0
           /\ call.result.typeBoost \in {0, 5 * Pct}
           /\ call.result.typeBoost = 5 * Pct
                 <=> (qGroups # {} /\ cGroups # {} /\ qGroups \cap cGroups # {})
           /\ ~(call.result.typeBoost # 0 /\ call.result.typePenalty # 0)
           /\ scored("Green Room Apartments", "Green Room Hostel")
                 => call.result.typePenalty = 18 * Pct
           /\ scored("Green Room Hotel", "Green Room Hostel")
                 => call.result.typePenalty = 10 * Pct
           /\ scored("Green Room", "Green Room Hostel")
                 => call.result.typePenalty = 0 /\ call.result.typeBoost = 0

\* A hotel query against a hostel: the weak penalty, no boost
C25_HotelAgainstHostel ==
    /\ scored("Green Room Hotel", "Green Room Hostel")
    /\ call.result.qTypeGroups = {"hotel"}
    /\ call.result.cTypeGroups = {"hostel"}
    /\ call.result.typePenalty = 10 * Pct
    /\ call.result.typeBoost = 0

\* The keys tok:{region}:d:{domain} among keys
domainKeys(keys) ==
    {k \in keys : Len(k) >= 9 /\ SubSeq(k, 1, 9) = "tok:" \o gl \o ":d:"}

\* The writes request r dispatched in step by
writesBy(r, by) == {d \in req[r].dispatched : d.by = by}

\* C26: every write to a domain key tok:{region}:d:{domain} carries a record
\* of confidence 0.75 or more, on every path that writes one (ctx backfill,
\* live search, name-hit backfill, verify backfill).
C26_DomainWritesAreConfident ==
    \A w \in pending :
        w.key \in domainKeys({w.key}) => w.value.confidence >= 75 * Pct

\* C26 as the code has it: every write to a domain key by the ctx tier or
\* the live search carries a record of confidence 0.75 or more; the name
\* tier copies the record it accepted, of confidence 0.55 or more; the
\* verify lookup never writes a domain key.
C26_DomainWritesByTier ==
    \A r \in Requests :
        /\ \A w \in writesBy(r, "ctx") \cup writesBy(r, "search") :
              w.key \in domainKeys({w.key}) => w.value.confidence >= 75 * Pct
        /\ domainKeys(dispatchedKeys(r, "verify")) = {}
        /\ \A w \in writesBy(r, "name") :
              w.key \in domainKeys({w.key}) => w.value.confidence >= 55 * Pct

\* A name-tier hit below 0.75 copied to the domain key
C26_NameHitCopiedBelowThreshold ==
    \E r \in Requests : \E w \in writesBy(r, "name") :
        /\ w \in {[by |-> "name", key |-> p.key, ttl |-> p.ttl, value |-> p.value] :
                     p \in pending}
        /\ w.key = req[r].tokenKeyDomain
        /\ w.key \in domainKeys({w.key})
        /\ w.value.confidence < 75 * Pct
        /\ req[r].tokenCacheDetail = "hit-name"

\* The keys of the token cache (name, domain and slug keys) among keys
tokenKeys(keys) == {k \in keys : Len(k) >= 4 /\ SubSeq(k, 1, 4) = "tok:"}

\* The token-cache writes request r dispatched
tokenWrites(r) == {d \in req[r].dispatched : d.key \in tokenKeys({d.key})}

\* C27: every TokenRecord handleCompare writes under a token key (name,
\* domain or slug) has a property_token, a confidence of 0.55 or more, and
\* was accepted against the writing request's own query without hard
\* mismatch; no rejected or hard-mismatched record is written back.
C27_WrittenRecordsWereAccepted ==
    \A r \in Requests : \A w \in tokenWrites(r) :
        /\ w.value.property_token # ""
        /\ w.value.confidence >= 55 * Pct
        /\ IsSome(w.value.matchDetails)
             => /\ Get(w.value.matchDetails).queryOriginal = req[r].hotelName
                /\ ~Get(w.value.matchDetails).hardMismatch
        /\ ~hardMismatches(req[r].hotelName, w.value)
        /\ hasToken(req[r].tokenObj)
        /\ Get(req[r].tokenObj).property_token = w.value.property_token

\* A record read from the cache, found uncertain, and written back by the
\* verify lookup
C27_UncertainRecordWrittenBack ==
    \E r \in Requests : \E w \in tokenWrites(r) :
        /\ w.by = "verify"
        /\ w.value.confidence < 65 * Pct
        /\ \E i \in 1..Len(req[r].trace) : req[r].trace[i].found # "" /\ ~req[r].trace[i].accepted

\* ------------------------------------------------------------------------
\* /compare with a context list that holds no match for the request: the
\* requests of Spec and "Completely Different Hostel" with ctx=c1
\* ------------------------------------------------------------------------
CtxMissInputs ==
    RequestInputs
    \cup {CompareParams("Completely Different Hostel", u, "", "c1", FALSE) :
              u \in OfficialUrls}

CompareStartCtxMiss(r) == CompareStartOf(r, CtxMissInputs)

NextCtxMiss ==
    \/ \E r \in Requests : CompareStartCtxMiss(r)
    \/ \E r \in Requests : CompareReadCtx(r)
    \/ \E r \in Requests : CompareReadDomain(r)
    \/ \E r \in Requests : CompareReadBooking(r)
    \/ \E r \in Requests : CompareReadName(r)
    \/ \E r \in Requests : CompareSearch(r)
    \/ \E r \in Requests : CompareVerify(r)
    \/ \E r \in Requests : CompareReadOffers(r)
    \/ \E r \in Requests : CompareFetchOffers(r)
    \/ ApplyWrite
    \/ HandlePrefetchCtx

SpecCtxMiss == Init /\ [][NextCtxMiss]_vars

\* The tier a token cacheDetail names
tierNamedBy(detail) ==
    IF detail = "ctx-hit" THEN "ctx"
    ELSE IF detail = "hit-domain" THEN "domain"
    ELSE IF detail = "hit-booking" THEN "booking"
    ELSE IF detail = "hit-name" THEN "name"
    ELSE IF detail = "miss" THEN "search"
    ELSE ""

\* The visits of request r that supplied a token the handler accepted
accepting(r) == {i \in 1..Len(req[r].trace) : req[r].trace[i].accepted}

\* C28: in every success response of /compare match.cacheDetail.token is one
\* of ctx-hit, hit-domain, hit-booking, hit-name, miss and names the tier
\* that supplied the returned property_token; it is miss exactly when the
\* token came from the live search of this request; ctx-nomatch and
\* invalid-hit-* never reach a response.
C28_CacheDetailNamesTheTier ==
    \A r \in Requests :
        (succeeded(r) /\ req[r].handler = "compare")
        => /\ matchOfResponse(r).cacheDetail.token
                 \in {"ctx-hit", "hit-domain", "hit-booking", "hit-name", "miss"}
           /\ Cardinality(accepting(r)) = 1
           /\ \A i \in accepting(r) :
                 /\ req[r].trace[i].tier = tierNamedBy(matchOfResponse(r).cacheDetail.token)
                 /\ req[r].trace[i].found = Get(req[r].response).property_token
           /\ matchOfResponse(r).cacheDetail.token = "miss"
                 <=> (callsOf(r, "search") # {} /\ callsOf(r, "search") = accepting(r))

\* A success after the context pick was rejected (ctx-nomatch) and a cached
\* record was rejected (invalid-hit-*): the response says miss
C28_RejectionsOverwritten ==
    \E r \in Requests :
        /\ succeeded(r)
        /\ req[r].handler = "compare"
        /\ matchOfResponse(r).cacheDetail.token = "miss"
        /\ req[r].ctxDebug.ctxRejectedReason = "confidence_too_low"
        /\ \E i \in 1..Len(req[r].trace) :
              /\ req[r].trace[i].tier \in {"domain", "booking", "name"}
              /\ req[r].trace[i].found # ""
              /\ ~req[r].trace[i].accepted

\* ------------------------------------------------------------------------
\* lib/rateLimit.js: rateLimitCompare and rateLimitPrefetch, one action per
\* await-separated step, for callers of one IP within one hour bucket.
\* The counter is the decimal string CACHE_KV holds under the key.
\* ------------------------------------------------------------------------
COMPARE_RATE_LIMIT == 60
CTX_RATE_LIMIT == 30

\* Concurrent callers of the rate limiter
MaxRateCallers == 2

RateCallers == 1..MaxRateCallers

\* getClientIp(request) of the callers
RateIp == "203.0.113.7"

\* String(n) for an integer n >= 0
RECURSIVE toDecimal(_)
toDecimal(n) ==
    IF n < 10 THEN CharAt(DigitChars, n + 1)
    ELSE toDecimal(n \div 10) \o CharAt(DigitChars, (n % 10) + 1)

\* parseInt(s, 10) for a string that starts with a digit: the value of its
\* leading digits
RECURSIVE parseIntFrom(_, _, _)
parseIntFrom(s, i, acc) ==
    IF i > Len(s) \/ CharAt(s, i) \notin CharsOf(DigitChars) THEN acc
    ELSE parseIntFrom(s, i + 1, acc * 10 + IndexIn(CharAt(s, i), DigitChars) - 1)

parseInt10(s) == parseIntFrom(s, 1, 0)

\* `rl:${route}:${hourBucket}:${ip}`
rateKeyOf(route, hourBucket, ip) ==
    "rl:" \o route \o ":" \o toDecimal(hourBucket) \o ":" \o ip

\* const current = currentRaw ? parseInt(currentRaw, 10) : 0, with "" for
\* the null of a missing key
currentOf(store, key) ==
    LET parsed(currentRaw) == IF currentRaw # "" THEN parseInt10(currentRaw) ELSE 0
    IN parsed(IF key \in DOMAIN store THEN store[key] ELSE "")

\* The locals of one call of the limiter: rl is the value it returned, "429"
\* for the response, "null" for null, "" while it has not returned
NoRateCall == [pc |-> "idle", key |-> "", current |-> 0, rl |-> ""]

\* await env.CACHE_KV.get(key), and the test of the limit, by a caller at
\* step from; a caller the limiter blocks is done, it returns the 429
rateLimitGet(c, from, route, limit) ==
    LET entered(key) ==
            LET current == currentOf(kv, key)
            IN req' = [req EXCEPT ![c].pc = IF current >= limit THEN "done" ELSE "put",
                                  ![c].key = key,
                                  ![c].current = current,
                                  ![c].rl = IF current >= limit THEN "429" ELSE ""]
    IN /\ req[c].pc = from
       /\ entered(rateKeyOf(route, 0, RateIp))
       /\ UNCHANGED <<kv, pending, prefetchCount, call>>

\* await env.CACHE_KV.put(key, String(current + 1), ...); return null to a
\* caller that goes on with step to
rateLimitPut(c, to) ==
    /\ req[c].pc = "put"
    /\ kv' = (req[c].key :> toDecimal(req[c].current + 1)) @@ kv
    /\ req' = [req EXCEPT ![c].pc = to, ![c].rl = "null"]
    /\ UNCHANGED <<pending, prefetchCount, call>>

RateLimitCompareGet(c) == rateLimitGet(c, "idle", "compare", COMPARE_RATE_LIMIT)

RateLimitComparePut(c) == rateLimitPut(c, "done")

\* The store after `earlier` requests of the bucket were admitted one after
\* the other
rateStoreAfter(route, earlier) ==
    IF earlier = 0 THEN <<>> ELSE rateKeyOf(route, 0, RateIp) :> toDecimal(earlier)

InitRate ==
    /\ \E earlier \in 0..COMPARE_RATE_LIMIT :
          /\ kv = rateStoreAfter("compare", earlier)
          /\ call = [op |-> "rateLimitCompare", earlier |-> earlier]
    /\ pending = {}
    /\ req = [c \in RateCallers |-> NoRateCall]
    /\ prefetchCount = 0

NextRate ==
    \/ \E c \in RateCallers : RateLimitCompareGet(c)
    \/ \E c \in RateCallers : RateLimitComparePut(c)

SpecRate == InitRate /\ [][NextRate]_vars

\* The requests of the bucket rateLimitCompare has admitted
admitted == call.earlier + Cardinality({c \in RateCallers : req[c].rl = "null"})

\* C29: rateLimitCompare admits at most COMPARE_RATE_LIMIT (60) requests per
\* client IP per hour bucket, for every interleaving of concurrent requests
\* of one IP within one bucket; every further request is answered 429.
C29_AtMostLimitAdmitted ==
    /\ admitted <= COMPARE_RATE_LIMIT
    /\ \A c \in RateCallers :
          (req[c].pc = "done" /\ req[c].current >= COMPARE_RATE_LIMIT) => req[c].rl = "429"

\* ------------------------------------------------------------------------
\* handlePrefetchCtx, one action per await-separated step, for requests
\* that passed the CORS, binding and parameter checks: the read of the
\* context key, rateLimitPrefetch, the upstream search.
\* ------------------------------------------------------------------------
NoPrefetch ==
    [pc |-> "idle", key |-> "", current |-> 0, rl |-> "", ctxKey |-> "",
     refresh |-> FALSE, read |-> FALSE, cached |-> None, upstream |-> 0,
     dispatched |-> {}, response |-> None]

prefetchResponse(status, cache, error_code, ctxId, count) ==
    [status |-> status, ok |-> status = 200, cache |-> cache,
     error_code |-> error_code, ctxId |-> ctxId, count |-> count]

\* A handler that reads the context and goes on to the limiter all the same
prefetchNeverAnswersHit(q) == FALSE

\* cached && Array.isArray(cached.properties): every ContextRecord of the
\* store holds an array
prefetchAnswersHit(q) == IsSome(q.cached)

\* KV-hit-first: if (!refresh) cached = await kvGetJson(env.CACHE_KV, ctxKey)
PrefetchReadCtx(c) ==
    /\ req[c].pc = "idle"
    /\ \E ctxParam \in CtxParams \ {""}, refresh \in BOOLEAN :
          LET entered(q) ==
                  req' = [req EXCEPT ![c] =
                            IF prefetchAnswersHit(q)
                            THEN [q EXCEPT !.pc = "done",
                                           !.response =
                                               Some(prefetchResponse(200, "hit", "", ctxParam,
                                                       Len(Get(q.cached).properties)))]
                            ELSE [q EXCEPT !.pc = "rl"]]
          IN entered([NoPrefetch EXCEPT !.ctxKey = ctxKeyOf(ctxParam),
                                        !.refresh = refresh,
                                        !.read = ~refresh,
                                        !.cached = IF refresh THEN None
                                                   ELSE kvGetJson(kv, ctxKeyOf(ctxParam))])
    /\ UNCHANGED <<kv, pending, prefetchCount, call>>

\* const rateLimited = await rateLimitPrefetch(request, env, corsHeaders)
PrefetchRateGet(c) == rateLimitGet(c, "rl", "prefetch", CTX_RATE_LIMIT)

PrefetchRatePut(c) == rateLimitPut(c, "search")

\* The upstream search, the write of the context and the answer
PrefetchSearch(c) ==
    /\ req[c].pc = "search"
    /\ \E searchCall \in SearchOutcomes :
          LET q == [req[c] EXCEPT !.upstream = @ + 1]
              stored(ctxData, writes) ==
                  /\ req' = [req EXCEPT ![c] =
                               [q EXCEPT !.pc = "done",
                                         !.dispatched = Dispatch("prefetch", writes),
                                         !.response =
                                             Some(prefetchResponse(200, "miss", "",
                                                     SubSeq(q.ctxKey, 5, Len(q.ctxKey)),
                                                     Len(ctxData.properties)))]]
                  /\ pending' = pending \cup writes
              built(ctxData) == stored(ctxData, {kvPutJson(q.ctxKey, ctxData, "CTX_TTL_SEC")})
          IN IF ~searchCall.ok
             THEN /\ req' = [req EXCEPT ![c] =
                               [q EXCEPT !.pc = "done",
                                         !.response =
                                             Some(prefetchResponse(502, "", "SEARCH_FAILED",
                                                                   "", 0))]]
                  /\ UNCHANGED pending
             ELSE built([properties |-> SelectSeq(searchCall.properties, hasPropertyToken)])
    /\ UNCHANGED <<kv, prefetchCount, call>>

\* The store an earlier /prefetchCtx of another hour left: the context c1
EarlierContexts == {<<>>, ctxKeyOf("c1") :> [properties |-> <<AldaHotel>>]}

InitPrefetch ==
    /\ \E earlier \in 0..CTX_RATE_LIMIT, contexts \in EarlierContexts :
          /\ kv = rateStoreAfter("prefetch", earlier) @@ contexts
          /\ call = [op |-> "rateLimitPrefetch", earlier |-> earlier]
    /\ pending = {}
    /\ req = [c \in RateCallers |-> NoPrefetch]
    /\ prefetchCount = 0

NextPrefetch ==
    \/ \E c \in RateCallers : PrefetchReadCtx(c)
    \/ \E c \in RateCallers : PrefetchRateGet(c)
    \/ \E c \in RateCallers : PrefetchRatePut(c)
    \/ \E c \in RateCallers : PrefetchSearch(c)
    \/ ApplyWrite

SpecPrefetch == InitPrefetch /\ [][NextPrefetch]_vars

answeredHit(q) == IsSome(q.response) /\ Get(q.response).cache = "hit"

\* C30: handlePrefetchCtx is KV-hit-first: when a ContextRecord exists for
\* the ctxId and refresh is not requested, it answers cache "hit" with that
\* ctxId, makes no upstream search, does not touch the prefetch rate-limit
\* counter and writes nothing; the rate-limit check and the upstream call
\* happen only on a context-cache miss.
C30_HitFirst ==
    /\ [](\A c \in RateCallers :
             /\ answeredHit(req[c])
                  => /\ Get(req[c].response).status = 200
                     /\ Get(req[c].response).ctxId = SubSeq(req[c].ctxKey, 5, Len(req[c].ctxKey))
                     /\ req[c].upstream = 0
                     /\ req[c].key = "" /\ req[c].rl = ""
                     /\ req[c].dispatched = {}
             /\ (req[c].read /\ IsSome(req[c].cached)) => answeredHit(req[c])
             /\ (req[c].pc \in {"rl", "put", "search"} \/ req[c].key # "" \/ req[c].upstream > 0)
                  => (req[c].refresh \/ ~IsSome(req[c].cached)))
    /\ [][\A c \in RateCallers :
             (answeredHit(req'[c]) /\ ~answeredHit(req[c]))
             => /\ kv' = kv
                /\ pending' = pending
                /\ ctxKeyOf(Get(req'[c].response).ctxId) \in DOMAIN kv
                /\ ~req'[c].refresh]_vars

\* A hit answered while the prefetch counter is at its limit, next to a
\* refresh of the same context that the limiter blocked
C30_HitAtTheLimit ==
    \E c, d \in RateCallers :
        /\ answeredHit(req[c])
        /\ req[d].refresh /\ req[d].rl = "429"
        /\ req[d].ctxKey = req[c].ctxKey
        /\ kv[rateKeyOf("prefetch", 0, RateIp)] = toDecimal(CTX_RATE_LIMIT)

====
